---- MODULE Spec2Model ----
(***************************************************************************)
(* BiteRankBackend: the rate limiter (services/rate_limiter.py), the value *)
(* calculator (services/value_calculator.py) and the scoring service       *)
(* (services/gemini_service.py), as a state machine.                       *)
(*                                                                         *)
(* Time is counted in ticks of 0.1 s (the limiter's safety margin is one   *)
(* tick).  Scores are held in tenths (63.2 is 632), prices in cents,       *)
(* price_per_calorie in units of 0.0001, protein in whole grams.           *)
(* A step of the model is what one asyncio task runs between two           *)
(* suspension points.                                                      *)
(***************************************************************************)
EXTENDS Integers, Sequences, FiniteSets

(* ------------------------------------------------------------ bounds --- *)
\* RateLimiter(max_requests, time_window): the program builds (50, 60 s);
\* the model checks a small gate.
max_requests == 2
time_window == 2
\* Number of score_deal calls (asyncio tasks), numbered in call order.
NumTasks == 4
\* New calls arrive up to this tick; the clock runs on while a task sleeps.
MaxTime == 3

\* sleep_time = ... + 0.1: one tick.
SleepMargin == 1

Tasks == 1..NumTasks

\* Python's None / an optional value.
None == << >>
Some(x) == << x >>
Val(o) == o[1]

(* ------------------------------------------------- value_calculator --- *)
TYPICAL_MEAL_CALORIES == 800
TYPICAL_MEAL_PROTEIN == 30
\* TYPICAL_MEAL_PRICE = 9.0, in cents.
TYPICAL_MEAL_PRICE == 900

\* Fixed point for pow(2.718281828, -raw): 8 decimals.
FScale == 100000000
FHalf == 10000
\* 1 / 2.718281828 = 0.36787944...
InvBase == 36787944
\* Terms of the series for 2.718281828^(-f), 0 <= f < 1.
SeriesTerms == 13

\* The numeric helpers are functions: their arguments are worked out once.
Min2[a \in Int, b \in Int] == IF a <= b THEN a ELSE b
Max2[a \in Int, b \in Int] == IF a >= b THEN a ELSE b

\* a / b rounded to the nearest integer, ties to even (Python's round on the
\* exact quotient; b > 0).  On an exact decimal tie the float's binary
\* representation decides in Python; the input grids below hold no tie.
RoundDiv[a \in Int, b \in Int] ==
    LET q == a \div b
        r == a % b
    IN  IF 2 * r < b THEN q
        ELSE IF 2 * r > b THEN q + 1
        ELSE IF q % 2 = 0 THEN q ELSE q + 1

\* Product of two fixed-point numbers in 0..FScale, without leaving 32 bits.
FMul[a \in Nat, b \in Nat] ==
    LET a1 == a \div FHalf
        a0 == a % FHalf
        b1 == b \div FHalf
        b0 == b % FHalf
    IN  a1 * b1 + (a1 * b0 + a0 * b1) \div FHalf + (a0 * b0) \div FScale

FPow[b \in Nat, k \in Nat] == IF k = 0 THEN FScale ELSE FMul[FPow[b, k - 1], b]

\* The series of 2.718281828^(-f) from term i on, in Horner's form:
\* 1 - f/i * (1 - f/(i+1) * (1 - ...)).
Series[f \in Nat, i \in Nat] ==
    IF i > SeriesTerms THEN FScale
    ELSE FScale - (FMul[f, Series[f, i + 1]] \div i)

\* pow(2.718281828, -n/8000) in fixed point: the whole part of the exponent by
\* repeated multiplication, the fractional part by the series.
PowNeg(n) ==
    LET den == 10 * TYPICAL_MEAL_CALORIES
        k == n \div den
        f == (n % den) * (FScale \div den)
    IN  FMul[FPow[InvBase, k], Series[f, 1]]

\* The clamp without its upper end.
clampMutNoUpper(x, lo, hi) == Max2[lo, x]
\* _clamp(x, lo=0.0, hi=100.0)
clamp(x, lo, hi) == Max2[lo, Min2[hi, x]]

\* The satiety with a negative protein counted by its size.
calculate_satiety_scoreMutAbsProtein(calories, protein_grams) ==
    IF calories = None \/ Val(calories) <= 0 THEN 0
    ELSE LET p == IF protein_grams = None THEN 0
                  ELSE IF Val(protein_grams) < 0 THEN 0 - Val(protein_grams)
                  ELSE Val(protein_grams)
             n == 7 * Val(calories)
                  + ((3 * TYPICAL_MEAL_CALORIES) \div TYPICAL_MEAL_PROTEIN) * p
         IN  clamp(RoundDiv[FScale - PowNeg(n), FScale \div 1000], 0, 1000)

\* calculate_satiety_score(calories, protein_grams), in tenths.
\* raw = 0.7*calories/800 + 0.3*protein/30 = (7*calories + 80*protein)/8000.
calculate_satiety_score(calories, protein_grams) ==
    IF calories = None \/ Val(calories) <= 0 THEN 0
    ELSE LET p == IF protein_grams = None \/ Val(protein_grams) < 0
                  THEN 0 ELSE Val(protein_grams)
             n == 7 * Val(calories)
                  + ((3 * TYPICAL_MEAL_CALORIES) \div TYPICAL_MEAL_PROTEIN) * p
             \* (1 - pow(e, -raw)) * 100, clamped, rounded to one decimal
             score == RoundDiv[FScale - PowNeg(n), FScale \div 1000]
         IN  clamp(score, 0, 1000)

\* calculate_price_efficiency_score(price, calories), in tenths; price is a
\* number of cents (every caller passes a float).
\* r * 50 = (900/800 cents per kcal) / (price/calories) * 50.
calculate_price_efficiency_score(price, calories) ==
    IF price <= 0 \/ calories = None \/ Val(calories) <= 0
    THEN 0
    ELSE LET \* both sides divided by 100, to stay within 32 bits
             num == (TYPICAL_MEAL_PRICE \div 100) * Val(calories) * 50 * 10
             den == (TYPICAL_MEAL_CALORIES \div 100) * price
         IN  \* score = _clamp(score); return round(score, 1)
             RoundDiv[clamp(num, 0, 1000 * den), den]

\* satiety * 0.4 + price_eff * 0.6, rounded to one decimal.
FinalScore(satiety, price_eff) == RoundDiv[4 * satiety + 6 * price_eff, 10]

\* calculate_final_value_score(calories, protein_grams, price)
calculate_final_value_score(calories, protein_grams, price) ==
    LET satiety == calculate_satiety_score(calories, protein_grams)
        price_eff == calculate_price_efficiency_score(price, calories)
    IN  [ value_score |-> FinalScore(satiety, price_eff),
          satiety_score |-> satiety,
          price_per_calorie |->
              IF calories # None /\ Val(calories) # 0 /\ Val(calories) > 0
              THEN RoundDiv[100 * price, Val(calories)] ELSE 0,
          price_efficiency_score |-> price_eff ]

(* ----------------------------------------------------------- state --- *)
VARIABLES
    now,          \* time.time(), in ticks
    requests,     \* RateLimiter.requests: the deque of approval timestamps
    lock,         \* RateLimiter.lock: 0 when free, else the task holding it
    waiters,      \* tasks suspended in lock.acquire(), first come first
    pc,           \* where each score_deal call stands
    args,         \* the arguments of each call in flight
    evalAt,       \* when the call read the clock at line 29 (None: not yet)
    wakeAt,       \* when its asyncio.sleep ends (None: it did not sleep)
    approvedAt,   \* the timestamp acquire appended for it (None: none)
    invokedAt,    \* when it called generate_content (None: it did not)
    ret,          \* what the latest completed score_deal call returned
    scorer_in,    \* the value calculator taken alone: its arguments
    scorer_out    \* and its result

\* MenuScraper.scrape_all, one call of it
VARIABLES
    site,         \* the web: what the menu page of each target answers
    sc_pc,        \* where the call stands: "idle", "gathering", "returned"
    sc_arg,       \* the slugs argument
    sc_slugs,     \* the local slugs, after the default is applied
    sc_task,      \* each scrape_restaurant coroutine: "pending", "fetching", "done"
    sc_results,   \* what gather holds for each of them (None: nothing yet)
    sc_stages,    \* the parsing stages each of them ran, in order
    sc_order,     \* the positions in the order the coroutines completed
    aggregated    \* the dict scrape_all returned (None: not returned)

\* rank_all_deals, one request
VARIABLES
    deals,        \* the rows the query returned, in its order
    ra_pc,        \* "idle", "batch", "returned", "raised"
    batch_size,   \* the query parameter
    ra_i,         \* the loop variable i
    ra_task,      \* each rank_single_deal coroutine: "pending", "running", "done"
    ra_batch,     \* what gather holds for each of them (None: nothing yet)
    ra_calls,     \* how many times score_deal was awaited for each deal
    ra_order,     \* the positions in the order the coroutines completed
    results       \* the list results

\* UberEatsScraper.fetch_menu, one call of it
VARIABLES
    store_page,   \* the web: what the store page answers
    fm_pc,        \* where the call stands: "idle", "fetching", "returned", "raised"
    clock,        \* datetime.now(timezone.utc), in ticks since the module was loaded
    fm_started,   \* when fetch_menu was called (None: not yet)
    fm_payloads,  \* the payloads _extract_state_payloads located
    fm_priced,    \* each candidate the loop of lines 73-90 took, with its source
                  \* price and what _parse_price made of it
    fm_items      \* the list fetch_menu returned

\* UberEatsStoreSearch.search_stores and the import of routes.py up to its
\* store targets, one call of each
VARIABLES
    geocoder,     \* the geocoding service: the coordinates it answers (None:
                  \* an error or an empty answer)
    listing,      \* the platform: what its search answers for each restaurant
    ss_pc,        \* search_stores called by itself: "idle", "returned", "raised"
    ss_call,      \* its arguments
    ss_stores,    \* the list it returned
    im_pc,        \* the import: "idle", "searching", "scraping", "raised"
    im_request,   \* its payload
    im_i,         \* the place of the loop of line 675 in restaurants_to_fetch
    im_searched,  \* what search_stores gave for each restaurant searched
    skipped,      \* the list skipped
    store_targets,\* the list store_targets
    im_status     \* the status of the HTTPException raised (0: none)

\* The table deals and the handlers of routes.py that write it: the two
\* imports from line 476 and line 724 on, create_deal, rank_deal and
\* rank_all_deals, one request at a time
VARIABLES
    table,        \* the rows of the table deals, in the order of their ids
    db_pc,        \* the request served: "idle", "scrape_import", "ubereats_import"
    db_auto_rank, \* its auto_rank
    db_records,   \* the records the loop over items has yet to take
    db_targets,   \* the store targets the loop of line 726 has yet to take
    existing_map, \* the dict existing_map: the row of each key
    existing_deals,  \* the dict existing_deals, for the store at hand
    seen_store_keys, \* the set seen_store_keys
    db_log,       \* what the imports did with each record they took, in order
    last_ranked,  \* the rows the latest step passed to _apply_score_results
    db_requests   \* how many requests were served

gateVars == << now, requests, lock, waiters, pc, args, evalAt, wakeAt,
               approvedAt, invokedAt, ret >>
scorerVars == << scorer_in, scorer_out >>
scrapeVars == << site, sc_pc, sc_arg, sc_slugs, sc_task, sc_results, sc_stages,
                 sc_order, aggregated >>
rankVars == << deals, ra_pc, batch_size, ra_i, ra_task, ra_batch, ra_calls,
               ra_order, results >>
menuVars == << store_page, fm_pc, clock, fm_started, fm_payloads, fm_priced, fm_items >>
storeVars == << geocoder, listing, ss_pc, ss_call, ss_stores, im_pc, im_request,
                im_i, im_searched, skipped, store_targets, im_status >>
dbVars == << table, db_pc, db_auto_rank, db_records, db_targets, existing_map,
            existing_deals, seen_store_keys, db_log, last_ranked, db_requests >>
vars == << gateVars, scorerVars, scrapeVars, rankVars, menuVars, storeVars, dbVars >>

\* What a step of one component leaves alone.
notGateVars == << scorerVars, scrapeVars, rankVars, menuVars, storeVars, dbVars >>
notScorerVars == << gateVars, scrapeVars, rankVars, menuVars, storeVars, dbVars >>
notScrapeVars == << gateVars, scorerVars, rankVars, menuVars, storeVars, dbVars >>
notRankVars == << gateVars, scorerVars, scrapeVars, menuVars, storeVars, dbVars >>
notMenuVars == << gateVars, scorerVars, scrapeVars, rankVars, storeVars, dbVars >>
notStoreVars == << gateVars, scorerVars, scrapeVars, rankVars, menuVars, dbVars >>
notDbVars == << gateVars, scorerVars, scrapeVars, rankVars, menuVars, storeVars >>

(* ----------------------------------------------------- rate_limiter --- *)
\* The pruning with the window forgotten: every entry up to now is dropped.
PruneMutAll(q, t) == SelectSeq(q, LAMBDA x : x > t)
\* No pruning at all.
PruneMutNone(q, t) == q
\* while self.requests and self.requests[0] < now - self.time_window: popleft()
RECURSIVE Prune(_, _)
Prune(q, t) ==
    IF q # << >> /\ Head(q) < t - time_window THEN Prune(Tail(q), t) ELSE q

\* The sleep computed without the window: until the oldest entry's own time.
sleep_timeMutNoWindow(q, t) == Head(q) - t + SleepMargin
\* sleep_time = self.requests[0] + self.time_window - now + 0.1
sleep_time(q, t) == Head(q) + time_window - t + SleepMargin

\* No lock: every caller goes straight in.
LockIsFreeMutAlways == TRUE
\* asyncio.Lock.acquire() returns at once only when the lock is free and
\* nobody is queued for it.
LockIsFree == lock = 0 /\ waiters = << >>

\* The lock never given back.
ReleasedMutKept(t) == t
\* The lock after `async with self.lock` is left.
Released(t) == 0

(* --------------------------------------------------- gemini_service --- *)
\* The fixed defaults of score_deal.
DEFAULT_CALORIES == 600
DEFAULT_PROTEIN == 20

\* Arguments of score_deal: calories and protein_grams optional, price in
\* cents.
ArgsIn ==
    { [calories |-> None, protein_grams |-> None, price |-> 899],
      [calories |-> Some(0), protein_grams |-> Some(30), price |-> 899],
      [calories |-> Some(800), protein_grams |-> None, price |-> 899],
      [calories |-> Some(800), protein_grams |-> Some(30), price |-> 499] }

\* What generate_content does: it raises, or it answers a text that is no
\* JSON ("garbage"), a JSON value whose fields int()/float() reject
\* ("badfield"), or a JSON object; the text may be wrapped in ```json fences.
\* A field that is None is missing from the object; calories are in tenths
\* (650.7 is 6507), as a JSON number may have decimals.
Reply(kind, fenced, calories, protein) ==
    [kind |-> kind, fenced |-> fenced, calories |-> calories, protein |-> protein]

Replies ==
    { Reply("raises", FALSE, None, None),
      Reply("garbage", FALSE, None, None),
      Reply("badfield", TRUE, None, None),
      Reply("object", FALSE, Some(6507), Some(28)),
      Reply("object", TRUE, Some(6507), None),
      Reply("object", FALSE, None, Some(28)),
      Reply("object", FALSE, Some(0), Some(28)),
      Reply("object", TRUE, Some(5), Some(28)),
      Reply("object", FALSE, Some(-5000), None) }

\* The provided calories compared with the typical meal instead of 0.
HasNutritionMutTypical(a) ==
    a.calories # None /\ Val(a.calories) > TYPICAL_MEAL_CALORIES
\* if calories and calories > 0
HasNutrition(a) ==
    a.calories # None /\ Val(a.calories) # 0 /\ Val(a.calories) > 0

\* The dict score_deal returns.
ScoreResult(calories, protein, price) ==
    LET scores == calculate_final_value_score(Some(calories), Some(protein), price)
    IN  [ value_score |-> scores.value_score,
          satiety_score |-> scores.satiety_score,
          price_per_calorie |-> scores.price_per_calorie,
          calories |-> calories,
          protein_grams |-> protein ]

\* re.sub(r'```json\s*|\s*```', '', response_text)
StripFence(reply) == [reply EXCEPT !.fenced = FALSE]

\* json.loads raises JSONDecodeError on a text that is no JSON.
JsonDecodes(text) == ~text.fenced /\ text.kind # "garbage"

\* int(x) taken as rounding up.
IntOfMutCeil(tenths) == (tenths + 9) \div 10
\* int(x) of a number in tenths: truncation toward zero.
IntOf(tenths) ==
    IF tenths >= 0 THEN tenths \div 10 ELSE -((-tenths) \div 10)

\* nutrition_data.get(key, 0)
GetOr0(field) == IF field = None THEN 0 ELSE Val(field)

\* Lines 87-149 of score_deal: the estimator's reply turned into a result.
Estimate(reply, price) ==
    IF reply.kind = "raises"
    THEN \* except Exception
         ScoreResult(DEFAULT_CALORIES, DEFAULT_PROTEIN, price)
    ELSE LET text == StripFence(reply)
         IN  IF ~JsonDecodes(text)
             THEN \* except json.JSONDecodeError
                  ScoreResult(DEFAULT_CALORIES, DEFAULT_PROTEIN, price)
             ELSE IF text.kind = "badfield"
             THEN \* int() or float() raises: except Exception
                  ScoreResult(DEFAULT_CALORIES, DEFAULT_PROTEIN, price)
             ELSE LET calories == IntOf(GetOr0(text.calories))
                      protein == GetOr0(text.protein)
                  IN  IF calories <= 0
                      THEN ScoreResult(DEFAULT_CALORIES, DEFAULT_PROTEIN, price)
                      ELSE ScoreResult(calories, protein, price)

\* The provided protein returned but left out of the score.
ProvidedMutNoProtein(a) ==
    [ ScoreResult(Val(a.calories), 0, a.price) EXCEPT
        !.protein_grams = IF a.protein_grams = None THEN 0 ELSE Val(a.protein_grams) ]
\* Lines 42-57 of score_deal: the provided nutrition used directly.
Provided(a) ==
    ScoreResult(Val(a.calories),
                IF a.protein_grams = None THEN 0 ELSE Val(a.protein_grams),
                a.price)

\* The k-th call of score_deal is task k.
CanCall(t) == pc[t] = "idle" /\ (IF t = 1 THEN TRUE ELSE pc[t - 1] # "idle")

Returned(a, acquired, reply, result) ==
    Some([ args |-> a, acquired |-> acquired, reply |-> reply, result |-> result ])

(* ---------------------------------------------------------- actions --- *)
\* score_deal with calories > 0: no await, the call returns in one step.
ScoreProvided(t) ==
    \E a \in ArgsIn :
        /\ CanCall(t)
        /\ HasNutrition(a)
        /\ pc' = [pc EXCEPT ![t] = "done"]
        /\ ret' = Returned(a, FALSE, None, Provided(a))
        /\ UNCHANGED << now, requests, lock, waiters, args, evalAt, wakeAt,
                        approvedAt, invokedAt >>
        /\ UNCHANGED notGateVars

\* acquire, line 51, and the rest of score_deal, with no await in between:
\* task t has the lock and q is the pruned deque.
Admit(t, a, q) ==
    \E reply \in Replies :
    /\ requests' = Append(q, now)
    /\ lock' = Released(t)
    /\ approvedAt' = [approvedAt EXCEPT ![t] = Some(now)]
    /\ invokedAt' = [invokedAt EXCEPT ![t] = Some(now)]
    /\ pc' = [pc EXCEPT ![t] = "done"]
    /\ args' = [args EXCEPT ![t] = None]
    /\ ret' = Returned(a, TRUE, Some(reply), Estimate(reply, a.price))

\* acquire, lines 29-43, once task t has the lock.
Evaluate(t, a) ==
    LET q == Prune(requests, now)
    IN  /\ evalAt' = [evalAt EXCEPT ![t] = Some(now)]
        /\ IF Len(q) >= max_requests
           THEN IF q = << >>
                THEN \* self.requests[0] raises IndexError (max_requests = 0);
                     \* score_deal's except Exception returns the defaults
                     /\ requests' = q
                     /\ lock' = Released(t)
                     /\ pc' = [pc EXCEPT ![t] = "done"]
                     /\ args' = [args EXCEPT ![t] = None]
                     /\ ret' = Returned(a, FALSE, None,
                            ScoreResult(DEFAULT_CALORIES, DEFAULT_PROTEIN, a.price))
                     /\ UNCHANGED << wakeAt, approvedAt, invokedAt >>
                ELSE IF sleep_time(q, now) > 0
                THEN \* await asyncio.sleep(sleep_time), the lock held
                     /\ requests' = q
                     /\ lock' = t
                     /\ pc' = [pc EXCEPT ![t] = "sleeping"]
                     /\ args' = [args EXCEPT ![t] = Some(a)]
                     /\ wakeAt' = [wakeAt EXCEPT ![t] = Some(now + sleep_time(q, now))]
                     /\ UNCHANGED << approvedAt, invokedAt, ret >>
                ELSE Admit(t, a, q) /\ UNCHANGED wakeAt
           ELSE Admit(t, a, q) /\ UNCHANGED wakeAt

\* score_deal without nutrition, the lock free: acquire runs at once.
ScoreEvaluate(t) ==
    \E a \in ArgsIn :
        /\ CanCall(t)
        /\ ~HasNutrition(a)
        /\ LockIsFree
        /\ Evaluate(t, a)
        /\ UNCHANGED << now, waiters >>
        /\ UNCHANGED notGateVars

\* score_deal without nutrition, the lock taken: the task queues for it.
ScoreBlocked(t) ==
    \E a \in ArgsIn :
        /\ CanCall(t)
        /\ ~HasNutrition(a)
        /\ ~LockIsFree
        /\ pc' = [pc EXCEPT ![t] = "waiting"]
        /\ args' = [args EXCEPT ![t] = Some(a)]
        /\ waiters' = Append(waiters, t)
        /\ UNCHANGED << now, requests, lock, evalAt, wakeAt, approvedAt,
                        invokedAt, ret >>
        /\ UNCHANGED notGateVars

\* The lock is released and the first queued task gets it.
LockGranted(t) ==
    /\ pc[t] = "waiting"
    /\ lock = 0
    /\ waiters # << >>
    /\ Head(waiters) = t
    /\ waiters' = Tail(waiters)
    /\ Evaluate(t, Val(args[t]))
    /\ UNCHANGED now
    /\ UNCHANGED notGateVars

\* asyncio.sleep is over: acquire, lines 46-51, then the rest of score_deal.
Wake(t) ==
    /\ pc[t] = "sleeping"
    /\ now >= Val(wakeAt[t])
    /\ Admit(t, Val(args[t]), Prune(requests, now))
    /\ UNCHANGED << now, waiters, evalAt, wakeAt >>
    /\ UNCHANGED notGateVars

\* Time passes.
Tick ==
    /\ \/ now < MaxTime
       \/ \E t \in Tasks : pc[t] = "sleeping" /\ now < Val(wakeAt[t])
    /\ now' = now + 1
    /\ UNCHANGED << requests, lock, waiters, pc, args, evalAt, wakeAt,
                    approvedAt, invokedAt, ret >>
    /\ UNCHANGED notGateVars

\* No call of scrape_all has been made.
ScrapeNotCalled ==
    /\ sc_pc = "idle"
    /\ sc_arg = << >>
    /\ sc_slugs = << >>
    /\ sc_task = << >>
    /\ sc_results = << >>
    /\ sc_stages = << >>
    /\ sc_order = << >>
    /\ aggregated = None

ScrapeIdle == site = << >> /\ ScrapeNotCalled

\* No rank-all request has been made.
RankIdle ==
    /\ deals = << >>
    /\ ra_pc = "idle"
    /\ batch_size = 0
    /\ ra_i = 0
    /\ ra_task = << >>
    /\ ra_batch = << >>
    /\ ra_calls = << >>
    /\ ra_order = << >>
    /\ results = << >>

\* No call of fetch_menu has been made.
MenuNotCalled ==
    /\ fm_pc = "idle"
    /\ clock = 0
    /\ fm_started = << >>
    /\ fm_payloads = << >>
    /\ fm_priced = << >>
    /\ fm_items = << >>

MenuIdle == store_page = << >> /\ MenuNotCalled

\* Neither search_stores nor the import has been called.
StoreNotCalled ==
    /\ ss_pc = "idle"
    /\ ss_call = << >>
    /\ ss_stores = << >>
    /\ im_pc = "idle"
    /\ im_request = << >>
    /\ im_i = 0
    /\ im_searched = << >>
    /\ skipped = << >>
    /\ store_targets = << >>
    /\ im_status = 0

StoreIdle == geocoder = << >> /\ listing = << >> /\ StoreNotCalled

\* No request on the table deals is served, and nothing was done.
DbNotCalled ==
    /\ db_pc = "idle"
    /\ db_auto_rank = FALSE
    /\ db_records = << >>
    /\ db_targets = << >>
    /\ existing_map = {}
    /\ existing_deals = {}
    /\ seen_store_keys = {}
    /\ db_log = << >>
    /\ last_ranked = {}
    /\ db_requests = 0

\* The table deals is empty and unused.
DbIdle == table = << >> /\ DbNotCalled

GateInit ==
    /\ now = 0
    /\ requests = << >>
    /\ lock = 0
    /\ waiters = << >>
    /\ pc = [t \in Tasks |-> "idle"]
    /\ args = [t \in Tasks |-> None]
    /\ evalAt = [t \in Tasks |-> None]
    /\ wakeAt = [t \in Tasks |-> None]
    /\ approvedAt = [t \in Tasks |-> None]
    /\ invokedAt = [t \in Tasks |-> None]
    /\ ret = None

Init ==
    /\ GateInit
    /\ scorer_in = None
    /\ scorer_out = None
    /\ ScrapeIdle
    /\ RankIdle
    /\ MenuIdle
    /\ StoreIdle
    /\ DbIdle

Next ==
    \/ \E t \in Tasks : ScoreProvided(t)
    \/ \E t \in Tasks : ScoreEvaluate(t)
    \/ \E t \in Tasks : ScoreBlocked(t)
    \/ \E t \in Tasks : LockGranted(t)
    \/ \E t \in Tasks : Wake(t)
    \/ Tick

Spec == Init /\ [][Next]_vars

(* ------------------------------------------- the value calculator alone --- *)
ScorerCalories == {None, Some(-100), Some(0), Some(1), Some(250), Some(650),
                   Some(800), Some(1200), Some(3000)}
ScorerProtein == {None, Some(-5), Some(0), Some(20), Some(30), Some(45), Some(100)}
ScorerPrice == {-99, 0, 99, 499, 899, 1299, 2500}

ScorerInit ==
    /\ GateInit
    /\ scorer_in \in [ calories : ScorerCalories, protein_grams : ScorerProtein,
                       price : ScorerPrice ]
    /\ scorer_out = None
    /\ ScrapeIdle
    /\ RankIdle
    /\ MenuIdle
    /\ StoreIdle
    /\ DbIdle

\* One call of calculate_final_value_score.
Score ==
    /\ scorer_out = None
    /\ scorer_out' = Some(calculate_final_value_score(
                              scorer_in.calories, scorer_in.protein_grams,
                              scorer_in.price))
    /\ UNCHANGED scorer_in
    /\ UNCHANGED notScorerVars

ScorerNext == Score

ScorerSpec == ScorerInit /\ [][ScorerNext]_vars

\* The scheduling of asyncio: as long as the clock can advance, a sleep is
\* over or a released lock has a task queued for it, one of these happens.
Progress ==
    \/ Tick
    \/ \E t \in Tasks : Wake(t)
    \/ \E t \in Tasks : LockGranted(t)

FairSpec == Spec /\ WF_vars(Progress)

(* ------------------------------------------------------ menu_scraper --- *)
\* The longest slugs argument of a scrape_all call.
MaxSlugs == 2

\* MenuScraper.TARGETS: the first three of its six entries, in its order.
TARGETS == << "mcdonalds", "taco-bell", "wendys" >>
TargetSlugs == { TARGETS[i] : i \in DOMAIN TARGETS }

\* target["restaurant"]
RestaurantOf(slug) ==
    CASE slug = "mcdonalds" -> "McDonald's"
      [] slug = "taco-bell" -> "Taco Bell"
      [] slug = "wendys" -> "Wendy's"

\* A name of nine words.
LongName == "Two Can Dine For Nine Ninety Nine All Day"

\* str.lower(), on the texts of the model.
lower(text) ==
    CASE text = "MenuItem" -> "menuitem"
      [] text = "ListItem" -> "listitem"
      [] text = "Menu" -> "menu"
      [] text = "Offer" -> "offer"
      [] text = "Order Now" -> "order now"
      [] text = "Big Mac" -> "big mac"
      [] text = "Crunchy Taco" -> "crunchy taco"
      [] text = "Baconator Combo" -> "baconator combo"
      [] text = "Fries" -> "fries"
      [] text = "Lunch" -> "lunch"
      [] text = "BIG MAC" -> "big mac"
      [] text = "Burgers" -> "burgers"
      [] text = "BURGERS" -> "burgers"
      [] text = "Sides" -> "sides"
      [] text = "Category" -> "category"
      [] text = "MenuItemSection" -> "menuitemsection"
      [] text = "Section" -> "section"
      [] text = LongName -> "two can dine for nine ninety nine all day"
      [] text = "McDonald's" -> "mcdonald's"
      [] text = "Taco Bell" -> "taco bell"
      [] text = "Wendy's" -> "wendy's"
      [] OTHER -> text

\* len(text.split()), on the texts of the model.
WordCount(text) ==
    CASE text = "" -> 0
      [] text \in {"Fries", "Lunch", "Menu"} -> 1
      [] text \in {"Order Now", "Big Mac", "Crunchy Taco", "Baconator Combo"} -> 2
      [] text = LongName -> 9

\* _looks_like_menu_item(text)
looks_like_menu_item(text) ==
    IF text = "" THEN FALSE
    ELSE IF WordCount(text) < 2 \/ WordCount(text) > 8 THEN FALSE
    ELSE IF lower(text) \in {"menu", "learn more", "order now"} THEN FALSE
    ELSE TRUE

\* round(float(value), 2): a number in thousandths becomes cents.
Round2(value) == RoundDiv[value, 10]

\* MenuScraper._parse_price(value, currency) and _parse_price_from_text(text),
\* the value being the number found (None: none found).
MenuScraper_parse_price(value) ==
    IF value = None THEN None ELSE Some(Round2(Val(value)))

ScrapedMenuItem(restaurant, name, price) ==
    [restaurant |-> restaurant, name |-> name, price |-> price]

\* ScrapedMenuItem.to_dict(): the fields that are None are left out.
to_dict(item) ==
    IF item.price = None
    THEN [restaurant |-> item.restaurant, name |-> item.name]
    ELSE [restaurant |-> item.restaurant, name |-> item.name,
          price |-> Val(item.price)]

\* One dict of the flattened JSON-LD: its @type, its name, the price of its
\* offer, and the dict under its "item" key (at most one).
LdEntry(type, name, price, item) ==
    [type |-> type, name |-> name, price |-> price, item |-> item]

\* One element matched by a selector: its label (None: none found) and the
\* first number of its text.
Element(name, price) == [name |-> name, price |-> price]

\* One line of the page's text: whether it holds a "$", whether it is longer
\* than 120 characters, what is left of it once the price is cut out, and
\* the first number in it.
Line(dollar, long, cleaned, price) ==
    [dollar |-> dollar, long |-> long, cleaned |-> cleaned, price |-> price]

\* What _fetch gets: an error (network or non-2xx) or a page.
Page(status, ldjson, elements, lines) ==
    [status |-> status, ldjson |-> ldjson, elements |-> elements, lines |-> lines]

PageError == Page("error", << >>, << >>, << >>)
PageEmpty == Page("ok", << >>, << >>, << >>)
\* Structured data, together with markup the later stages would match.
PageStructured ==
    Page("ok",
         << LdEntry("Menu", Some("Lunch"), None, << >>),
            LdEntry("MenuItem", Some("Big Mac"), Some(5490), << >>),
            LdEntry("ListItem", None, None, << >>),
            LdEntry("Offer", None, None,
                    << LdEntry("MenuItem", Some("Crunchy Taco"), Some(1994), << >>) >>) >>,
         << Element(Some("Baconator Combo"), Some(8990)) >>,
         << Line(TRUE, FALSE, "Crunchy Taco", Some(1990)) >>)
\* No menu item in the structured data; elements, one name twice.
PageElements ==
    Page("ok",
         << LdEntry("Menu", Some("Lunch"), None, << >>) >>,
         << Element(None, Some(1000)),
            Element(Some("Order Now"), None),
            Element(Some("Fries"), Some(1990)),
            Element(Some("Big Mac"), Some(5490)),
            Element(Some("Big Mac"), Some(5990)),
            Element(Some("Baconator Combo"), None) >>,
         << Line(TRUE, FALSE, "Crunchy Taco", Some(1990)) >>)
\* Only the text scan finds items: every element is rejected.
PageText ==
    Page("ok",
         << >>,
         << Element(Some("Order Now"), None), Element(Some("Fries"), Some(1990)) >>,
         << Line(FALSE, FALSE, "Big Mac", None),
            Line(TRUE, TRUE, "Big Mac", Some(5490)),
            Line(TRUE, FALSE, "Crunchy Taco", Some(1996)),
            Line(TRUE, FALSE, "Order Now", Some(1000)),
            Line(TRUE, FALSE, LongName, Some(9990)),
            Line(TRUE, FALSE, "Baconator Combo", Some(8990)) >>)

Pages == { PageError, PageEmpty, PageStructured, PageElements, PageText }

\* The slugs a caller may ask for: two targets and one unknown slug.
RequestSlugs == { "mcdonalds", "taco-bell", "arbys" }
SlugArgs == UNION { [1..k -> RequestSlugs] : k \in 0..MaxSlugs }

\* _coerce_menu_item(entry)
RECURSIVE coerce_menu_item(_)
coerce_menu_item(entry) ==
    IF lower(entry.type) \notin {"menuitem", "listitem"}
    THEN IF entry.item # << >> THEN coerce_menu_item(entry.item[1]) ELSE None
    ELSE IF entry.name = None THEN None
    ELSE Some([name |-> Val(entry.name),
               price |-> MenuScraper_parse_price(entry.price)])

\* _parse_structured_data(restaurant, url, soup)
parse_structured_data(restaurant, page) ==
    LET found == SelectSeq(page.ldjson, LAMBDA en : coerce_menu_item(en) # None)
    IN  [ i \in DOMAIN found |->
            LET menu_item == Val(coerce_menu_item(found[i]))
            IN  ScrapedMenuItem(restaurant, menu_item.name, menu_item.price) ]

\* The loop over the selected elements, lines 242-265.
RECURSIVE HeuristicItems(_, _, _)
HeuristicItems(restaurant, elements, seen_names) ==
    IF elements = << >> THEN << >>
    ELSE LET element == Head(elements)
         IN  IF element.name = None
             THEN HeuristicItems(restaurant, Tail(elements), seen_names)
             ELSE IF Val(element.name) \in seen_names
                     \/ ~looks_like_menu_item(Val(element.name))
             THEN HeuristicItems(restaurant, Tail(elements), seen_names)
             ELSE << ScrapedMenuItem(restaurant, Val(element.name),
                                     MenuScraper_parse_price(element.price)) >>
                  \o HeuristicItems(restaurant, Tail(elements),
                                    seen_names \cup {Val(element.name)})

\* _guess_items_from_text(text): the (name, price) pairs.
guess_items_from_text(lines) ==
    LET kept == SelectSeq(lines, LAMBDA line :
                    /\ line.dollar
                    /\ ~line.long
                    /\ looks_like_menu_item(line.cleaned))
    IN  [ i \in DOMAIN kept |->
            [name |-> kept[i].cleaned,
             price |-> MenuScraper_parse_price(kept[i].price)] ]

\* The heuristics with the text scan always run and its items added.
parse_with_heuristicsMutMerge(restaurant, page) ==
    LET items == HeuristicItems(restaurant, page.elements, {})
        text_items == guess_items_from_text(page.lines)
    IN  [ items |-> items \o [ i \in DOMAIN text_items |->
                        ScrapedMenuItem(restaurant, text_items[i].name,
                                        text_items[i].price) ],
          stages |-> << "elements", "text" >> ]

\* _parse_with_heuristics(restaurant, url, soup): the items, and the stages
\* that ran.
parse_with_heuristics(restaurant, page) ==
    LET items == HeuristicItems(restaurant, page.elements, {})
        seen_names == { items[i].name : i \in DOMAIN items }
    IN  IF items # << >>
        THEN [ items |-> items, stages |-> << "elements" >> ]
        ELSE LET text_items == guess_items_from_text(page.lines)
                 added == SelectSeq(text_items, LAMBDA ti : ti.name \notin seen_names)
             IN  [ items |-> [ i \in DOMAIN added |->
                                 ScrapedMenuItem(restaurant, added[i].name,
                                                 added[i].price) ],
                   stages |-> << "elements", "text" >> ]

\* scrape_restaurant(slug), lines 79-91, on the page fetched.
scrape_restaurant(slug, page) ==
    LET restaurant_name == RestaurantOf(slug)
        items == parse_structured_data(restaurant_name, page)
    IN  IF items # << >>
        THEN [ items |-> items, stages |-> << "structured" >> ]
        ELSE LET h == parse_with_heuristics(restaurant_name, page)
             IN  [ items |-> h.items, stages |-> << "structured" >> \o h.stages ]

\* What gather holds for one coroutine: the exception it raised, or the list
\* it returned.
Raised == [ok |-> FALSE, items |-> << >>]
Returns(items) == [ok |-> TRUE, items |-> items]

\* aggregated[slug] = value, on a dict kept as the sequence of its
\* (key, value) pairs in insertion order.
DictSet(d, key, value) ==
    IF \E i \in DOMAIN d : d[i][1] = key
    THEN [ i \in DOMAIN d |-> IF d[i][1] = key THEN << key, value >> ELSE d[i] ]
    ELSE Append(d, << key, value >>)

\* The loop of lines 99-104 with a failed target left out of the dict.
RECURSIVE AggregateMutDropFailed(_, _, _, _)
AggregateMutDropFailed(slugs, res, i, d) ==
    IF i > Len(slugs) THEN d
    ELSE LET result == Val(res[i])
         IN  IF ~result.ok
             THEN AggregateMutDropFailed(slugs, res, i + 1, d)
             ELSE AggregateMutDropFailed(slugs, res, i + 1,
                      DictSet(d, slugs[i],
                              [ j \in DOMAIN result.items |-> to_dict(result.items[j]) ]))

\* for slug, result in zip(slugs, results): lines 99-104, from position i on.
RECURSIVE Aggregate(_, _, _, _)
Aggregate(slugs, res, i, d) ==
    IF i > Len(slugs) THEN d
    ELSE LET result == Val(res[i])
         IN  IF ~result.ok
             THEN Aggregate(slugs, res, i + 1, DictSet(d, slugs[i], << >>))
             ELSE Aggregate(slugs, res, i + 1,
                      DictSet(d, slugs[i],
                              [ j \in DOMAIN result.items |-> to_dict(result.items[j]) ]))

\* The results in the order the coroutines completed.
GatheredMutCompletionOrder(res, given, completed) ==
    [ k \in DOMAIN completed |-> res[completed[k]] ]
\* What asyncio.gather returns for the coroutines at the positions `given`:
\* their results in the order they were given, whatever the order
\* `completed` they finished in.
Gathered(res, given, completed) == [ k \in DOMAIN given |-> res[given[k]] ]

\* scrape_all(slugs) is called: lines 94-96, up to the await.
ScrapeAllCall ==
    \E arg \in SlugArgs :
        /\ sc_pc = "idle"
        /\ sc_pc' = "gathering"
        /\ sc_arg' = arg
        /\ sc_slugs' = IF arg = << >> THEN TARGETS ELSE arg
        /\ sc_task' = [ i \in DOMAIN sc_slugs' |-> "pending" ]
        /\ sc_results' = [ i \in DOMAIN sc_slugs' |-> None ]
        /\ sc_stages' = [ i \in DOMAIN sc_slugs' |-> << >> ]
        /\ UNCHANGED << site, sc_order, aggregated >>
        /\ UNCHANGED notScrapeVars

\* The i-th coroutine runs up to its await: lines 74-78.  The event loop
\* starts the coroutines in the order gather was given them.
ScrapeStart(i) ==
    /\ sc_pc = "gathering"
    /\ i \in DOMAIN sc_task
    /\ sc_task[i] = "pending"
    /\ \A j \in DOMAIN sc_task : j < i => sc_task[j] # "pending"
    /\ IF sc_slugs[i] \notin TargetSlugs
       THEN \* raise ValueError
            /\ sc_task' = [sc_task EXCEPT ![i] = "done"]
            /\ sc_results' = [sc_results EXCEPT ![i] = Some(Raised)]
            /\ sc_order' = Append(sc_order, i)
       ELSE /\ sc_task' = [sc_task EXCEPT ![i] = "fetching"]
            /\ UNCHANGED << sc_results, sc_order >>
    /\ UNCHANGED << site, sc_pc, sc_arg, sc_slugs, sc_stages, aggregated >>
    /\ UNCHANGED notScrapeVars

\* _fetch raises (network error, or raise_for_status on a non-2xx answer).
FetchFails(i) ==
    /\ sc_pc = "gathering"
    /\ i \in DOMAIN sc_task
    /\ sc_task[i] = "fetching"
    /\ site[sc_slugs[i]].status = "error"
    /\ sc_task' = [sc_task EXCEPT ![i] = "done"]
    /\ sc_results' = [sc_results EXCEPT ![i] = Some(Raised)]
    /\ sc_order' = Append(sc_order, i)
    /\ UNCHANGED << site, sc_pc, sc_arg, sc_slugs, sc_stages, aggregated >>
    /\ UNCHANGED notScrapeVars

\* _fetch returns the page: the rest of scrape_restaurant, lines 79-91.
FetchReturns(i) ==
    /\ sc_pc = "gathering"
    /\ i \in DOMAIN sc_task
    /\ sc_task[i] = "fetching"
    /\ site[sc_slugs[i]].status = "ok"
    /\ LET out == scrape_restaurant(sc_slugs[i], site[sc_slugs[i]])
       IN  /\ sc_results' = [sc_results EXCEPT ![i] = Some(Returns(out.items))]
           /\ sc_stages' = [sc_stages EXCEPT ![i] = out.stages]
    /\ sc_task' = [sc_task EXCEPT ![i] = "done"]
    /\ sc_order' = Append(sc_order, i)
    /\ UNCHANGED << site, sc_pc, sc_arg, sc_slugs, aggregated >>
    /\ UNCHANGED notScrapeVars

\* Every coroutine is done: gather returns, lines 98-106.
ScrapeAllReturn ==
    /\ sc_pc = "gathering"
    /\ \A i \in DOMAIN sc_task : sc_task[i] = "done"
    /\ LET given == [ i \in DOMAIN sc_slugs |-> i ]
       IN  aggregated' = Some(Aggregate(sc_slugs,
                                  Gathered(sc_results, given, sc_order), 1, << >>))
    /\ sc_pc' = "returned"
    /\ UNCHANGED << site, sc_arg, sc_slugs, sc_task, sc_results, sc_stages, sc_order >>
    /\ UNCHANGED notScrapeVars

ScrapeInit ==
    /\ GateInit
    /\ scorer_in = None
    /\ scorer_out = None
    /\ RankIdle
    /\ MenuIdle
    /\ StoreIdle
    /\ DbIdle
    /\ site \in [TargetSlugs -> Pages]
    /\ ScrapeNotCalled

ScrapeNext ==
    \/ ScrapeAllCall
    \/ \E i \in 1..(MaxSlugs + Len(TARGETS)) : ScrapeStart(i)
    \/ \E i \in 1..(MaxSlugs + Len(TARGETS)) : FetchFails(i)
    \/ \E i \in 1..(MaxSlugs + Len(TARGETS)) : FetchReturns(i)
    \/ ScrapeAllReturn

ScrapeSpec == ScrapeInit /\ [][ScrapeNext]_vars

(* ------------------------------------------------- routes: rank-all --- *)
\* The most rows the query returns.
MaxDeals == 3

\* The ids of the rows, in the order the query returns them.
DealIds == << 7, 3, 9, 5, 8, 2 >>
DealRows == { [ p \in 1..n |-> [id |-> DealIds[p]] ] : n \in 0..MaxDeals }

\* batch_size: int = Query(default=10, le=20): any integer up to 20.
BatchSizes == (0 - 1)..MaxDeals

\* RankingResponse(deal_id, ..., success)
RankingResponse(d, success) == [deal_id |-> d.id, success |-> success]

\* The positions of batch = deals[i : i + batch_size], in order.
BatchOf(i) ==
    LET last == IF i + batch_size <= Len(deals) THEN i + batch_size ELSE Len(deals)
    IN  [ k \in 1..(last - i) |-> i + k ]

InBatch(p) == p > ra_i /\ p <= ra_i + batch_size

\* rank_all_deals is called: lines 338-411, up to the first gather.
RankAllCall ==
    \E bs \in BatchSizes :
        /\ ra_pc = "idle"
        /\ batch_size' = bs
        /\ ra_i' = 0
        /\ ra_batch' = [ p \in DOMAIN deals |-> None ]
        /\ ra_calls' = [ p \in DOMAIN deals |-> 0 ]
        /\ IF deals = << >>
           THEN \* if not deals: return []
                /\ ra_pc' = "returned"
                /\ ra_task' = << >>
           ELSE IF bs = 0
           THEN \* range(0, len(deals), 0) raises ValueError
                /\ ra_pc' = "raised"
                /\ ra_task' = [ p \in DOMAIN deals |-> "none" ]
           ELSE IF bs < 0
           THEN \* range(0, len(deals), batch_size) is empty: no batch at all
                /\ ra_pc' = "returned"
                /\ ra_task' = [ p \in DOMAIN deals |-> "none" ]
           ELSE /\ ra_pc' = "batch"
                /\ ra_task' = [ p \in DOMAIN deals |->
                                  IF p <= bs THEN "pending" ELSE "none" ]
        /\ UNCHANGED << deals, ra_order, results >>
        /\ UNCHANGED notRankVars

\* rank_single_deal(d) runs up to its await of score_deal, line 362.  The
\* event loop starts the coroutines in the order gather was given them.
RankStart(p) ==
    /\ ra_pc = "batch"
    /\ p \in DOMAIN ra_task
    /\ ra_task[p] = "pending"
    /\ \A q \in DOMAIN ra_task : q < p => ra_task[q] # "pending"
    /\ ra_task' = [ra_task EXCEPT ![p] = "running"]
    /\ ra_calls' = [ra_calls EXCEPT ![p] = @ + 1]
    /\ UNCHANGED << deals, ra_pc, batch_size, ra_i, ra_batch, ra_order, results >>
    /\ UNCHANGED notRankVars

\* score_deal is back: lines 373-399; an exception gives success=False.
RankComplete(p) ==
    \E success \in BOOLEAN :
        /\ ra_pc = "batch"
        /\ p \in DOMAIN ra_task
        /\ ra_task[p] = "running"
        /\ ra_task' = [ra_task EXCEPT ![p] = "done"]
        /\ ra_batch' = [ra_batch EXCEPT ![p] = Some(RankingResponse(deals[p], success))]
        /\ ra_order' = Append(ra_order, p)
        /\ UNCHANGED << deals, ra_pc, batch_size, ra_i, ra_calls, results >>
        /\ UNCHANGED notRankVars

\* gather returns: lines 411-424, up to the next gather or the return.
RankGathered ==
    /\ ra_pc = "batch"
    /\ \A p \in DOMAIN ra_task : InBatch(p) => ra_task[p] = "done"
    /\ LET batch_results == Gathered(ra_batch, BatchOf(ra_i),
                                     SelectSeq(ra_order, InBatch))
           next_i == ra_i + batch_size
       IN  /\ results' = results \o [ k \in DOMAIN batch_results |->
                                        Val(batch_results[k]) ]
           /\ IF next_i >= Len(deals)
              THEN /\ ra_pc' = "returned"
                   /\ UNCHANGED << ra_i, ra_task >>
              ELSE /\ ra_i' = next_i
                   /\ ra_task' = [ p \in DOMAIN ra_task |->
                                     IF p > next_i /\ p <= next_i + batch_size
                                     THEN "pending" ELSE ra_task[p] ]
                   /\ UNCHANGED ra_pc
    /\ UNCHANGED << deals, batch_size, ra_batch, ra_calls, ra_order >>
    /\ UNCHANGED notRankVars

RankInit ==
    /\ GateInit
    /\ scorer_in = None
    /\ scorer_out = None
    /\ ScrapeIdle
    /\ MenuIdle
    /\ StoreIdle
    /\ DbIdle
    /\ deals \in DealRows
    /\ ra_pc = "idle"
    /\ batch_size = 0
    /\ ra_i = 0
    /\ ra_task = << >>
    /\ ra_batch = << >>
    /\ ra_calls = << >>
    /\ ra_order = << >>
    /\ results = << >>

RankNext ==
    \/ RankAllCall
    \/ \E p \in 1..MaxDeals : RankStart(p)
    \/ \E p \in 1..MaxDeals : RankComplete(p)
    \/ RankGathered

RankSpec == RankInit /\ [][RankNext]_vars

\* A scrape_all call and a rank-all request served by the same event loop.
BatchInit ==
    /\ GateInit
    /\ scorer_in = None
    /\ scorer_out = None
    /\ MenuIdle
    /\ StoreIdle
    /\ DbIdle
    /\ site = [ slug \in TargetSlugs |->
                  CASE slug = "mcdonalds" -> PageStructured
                    [] slug = "taco-bell" -> PageError
                    [] slug = "wendys" -> PageText ]
    /\ ScrapeNotCalled
    /\ deals = [ p \in 1..MaxDeals |-> [id |-> DealIds[p]] ]
    /\ ra_pc = "idle"
    /\ batch_size = 0
    /\ ra_i = 0
    /\ ra_task = << >>
    /\ ra_batch = << >>
    /\ ra_calls = << >>
    /\ ra_order = << >>
    /\ results = << >>

BatchNext == ScrapeNext \/ RankNext

BatchSpec == BatchInit /\ [][BatchNext]_vars

(* -------------------------------------------------- ubereats_scraper --- *)
\* The most payloads found in one store page.
MaxPayloads == 3

\* How long the clock of the store pages runs.
MaxClock == 2

\* if amount > 20: the amount is taken for cents.
CentsThreshold == 20

\* A price as the JSON holds it: a number (in thousandths), a string, or a
\* value that is neither (a list, say).
Num(v) == [kind |-> "num", num |-> v, text |-> ""]
Str(t) == [kind |-> "str", num |-> 0, text |-> t]
Other == [kind |-> "other", num |-> 0, text |-> ""]

\* re.search(r"(\d+(?:\.\d{1,2})?)", value.replace(",", "")) on the strings of
\* the model: the number matched, in thousandths (None: no match).
NumberIn(text) ==
    CASE text = "$2.49" -> Some(2490)
      [] text = "1,299" -> Some(1299000)
      [] text = "12.999" -> Some(12990)
      [] text = "25" -> Some(25000)
      [] text = "free" -> None

\* _parse_price with amounts of exactly 20 taken for cents as well.
UberEatsScraper_parse_priceMutInclusive(value) ==
    IF value = None THEN None
    ELSE LET v == Val(value)
         IN  CASE v.kind = "num" ->
                    IF v.num >= CentsThreshold * 1000
                    THEN Some(RoundDiv[v.num, 1000])
                    ELSE Some(Round2(v.num))
               [] v.kind = "str" ->
                    IF NumberIn(v.text) = None THEN None
                    ELSE Some(Round2(Val(NumberIn(v.text))))
               [] OTHER -> None

\* _parse_price with no amount taken for cents.
UberEatsScraper_parse_priceMutNoDivide(value) ==
    IF value = None THEN None
    ELSE LET v == Val(value)
         IN  CASE v.kind = "num" -> Some(Round2(v.num))
               [] v.kind = "str" ->
                    IF NumberIn(v.text) = None THEN None
                    ELSE Some(Round2(Val(NumberIn(v.text))))
               [] OTHER -> None

\* UberEatsScraper._parse_price(value): the price in cents, or None.
UberEatsScraper_parse_price(value) ==
    IF value = None THEN None
    ELSE LET v == Val(value)
         IN  CASE v.kind = "num" ->
                    IF v.num > CentsThreshold * 1000
                    THEN \* round(amount / 100.0, 2)
                         Some(RoundDiv[v.num, 1000])
                    ELSE Some(Round2(v.num))
               [] v.kind = "str" ->
                    IF NumberIn(v.text) = None THEN None
                    ELSE Some(Round2(Val(NumberIn(v.text))))
               [] OTHER -> None

\* _clean_name(text), on the texts of the model.
clean_name(text) ==
    IF text = None THEN None
    ELSE IF Val(text) = "" THEN None
    ELSE Some(CASE Val(text) = "Big Mac®" -> "Big Mac"
                [] Val(text) = "Big  Mac" -> "Big Mac"
                [] Val(text) = " " -> ""
                [] OTHER -> Val(text))

\* A JSON value that is a dict or a list: for a dict its name (the first of
\* title, name, displayName that is set, when it is a string), its shortName,
\* its type tag (type or __typename), the price _extract_price_field resolves,
\* and its dict and list values with their keys, in the dict's order; for a
\* list its elements. string_name is the first of title, name, displayName
\* that is a string; price_raises tells that priceInfo or itemPrice is set
\* to a value that is no dict, on which .get raises AttributeError.
Dict(name, short, type, price, kids) ==
    [kind |-> "dict", name |-> name, short |-> short, type |-> type,
     price |-> price, kids |-> kids, string_name |-> name, price_raises |-> FALSE]
List(elements) ==
    [kind |-> "list", name |-> None, short |-> None, type |-> None,
     price |-> None,
     kids |-> [ i \in DOMAIN elements |-> [key |-> "", value |-> elements[i]] ],
     string_name |-> None, price_raises |-> FALSE]
\* A dict whose title is set to a value that is no string (a dict, say) and
\* whose name is a string: title or name or displayName is the title.
DictShadowed(string_name, price) ==
    [Dict(None, None, None, Some(price), << >>) EXCEPT !.string_name = Some(string_name)]
\* A dict with "priceInfo": null.
DictNullPriceInfo ==
    [Dict(None, None, None, None, << >>) EXCEPT !.price_raises = TRUE]
Kid(key, value) == [key |-> key, value |-> value]

\* An item dict with no dict or list inside.
ItemNode(name, price) == Dict(Some(name), None, None, Some(price), << >>)

\* _looks_like_item(node)
looks_like_item(node) == node.name # None /\ node.price # None

\* _extract_items(payload): walk(node, current_category), the candidates in
\* the order they are yielded.
RECURSIVE walk(_, _)
RECURSIVE walk_kids(_, _, _)
walk(node, current_category) ==
    IF node.kind = "dict"
    THEN LET is_section ==
                 /\ node.name # None
                 /\ node.type # None
                 /\ lower(Val(node.type)) \in {"category", "section", "menuitemsection"}
             current_category_local ==
                 IF is_section THEN node.name ELSE current_category
             own == IF looks_like_item(node)
                    THEN << [name |-> IF node.name # None THEN node.name ELSE node.short,
                             price |-> node.price,
                             category |-> current_category] >>
                    ELSE << >>
         IN  own \o walk_kids(node.kids, current_category_local, TRUE)
    ELSE walk_kids(node.kids, current_category, FALSE)

\* The loop over a dict's values (by_key) or a list's elements.
walk_kids(kids, category, by_key) ==
    IF kids = << >> THEN << >>
    ELSE LET kid == Head(kids)
             next_category ==
                 IF /\ by_key
                    /\ lower(kid.key) \in {"category", "section", "menu_items_section"}
                    /\ kid.value.kind = "dict"
                    /\ kid.value.name # None
                 THEN kid.value.name
                 ELSE category
         IN  walk(kid.value, next_category) \o walk_kids(Tail(kids), category, by_key)

\* _extract_price_field raises on a dict the walk visits: _looks_like_item
\* calls it on every dict.
RECURSIVE walk_raises(_)
walk_raises(node) ==
    \/ node.price_raises
    \/ \E i \in DOMAIN node.kids : walk_raises(node.kids[i].value)

\* One string _extract_state_payloads located: whether json.loads accepts it
\* and, if so, the value it gives.
Payload(valid, root) == [valid |-> valid, root |-> root]

PayloadBad == Payload(FALSE, List(<< >>))
PayloadEmpty == Payload(TRUE, Dict(None, None, None, None, << >>))
\* A typed category with three items, two of them under one key.
PayloadBurgers ==
    Payload(TRUE,
        Dict(Some("Burgers"), None, Some("Category"), None,
             << Kid("items", List(<< ItemNode("Big Mac", Num(1299000)),
                                     ItemNode("BIG MAC", Num(5494)),
                                     ItemNode("Fries", Str("$2.49")) >>)) >>))
\* The same category spelled differently, and prices at the threshold.
PayloadThreshold ==
    Payload(TRUE,
        Dict(None, None, None, None,
             << Kid("section",
                    Dict(Some("BURGERS"), None, None, None,
                         << Kid("items", List(<< ItemNode("Big Mac®", Num(12990)),
                                                 ItemNode("Fries", Num(20000)),
                                                 ItemNode("Crunchy Taco", Num(20010)) >>)) >>)),
                Kid("featured", ItemNode("Crunchy Taco", Num(2500000))) >>))
\* No category; prices that do not parse, a name that cleans to nothing, a
\* price below zero.
PayloadLoose ==
    Payload(TRUE,
        List(<< ItemNode("Fries", Str("free")),
                ItemNode("Big Mac", Other),
                ItemNode(" ", Num(4990)),
                ItemNode("Big  Mac", Str("1,299")),
                ItemNode("Crunchy Taco", Num(0 - 5000)),
                ItemNode("Fries", Str("12.999")),
                Dict(Some(" "), None, Some("Section"), None,
                     << Kid("items", List(<< ItemNode("Fries", Str("25")) >>)) >>) >>))

\* An item under the key "category", an item whose title is no string, and an
\* item in a typed section that has a price itself.
PayloadKeyed ==
    Payload(TRUE,
        Dict(None, None, None, None,
             << Kid("category", ItemNode("Fries", Num(2490))),
                Kid("featured", DictShadowed("Big Mac", Num(5494))),
                Kid("menu",
                    Dict(Some("Sides"), None, Some("Section"), Some(Num(3000)),
                         << Kid("items", List(<< ItemNode("Crunchy Taco", Num(1990)) >>)) >>)) >>))
\* A dict with "priceInfo": null next to an item.
PayloadNullPriceInfo ==
    Payload(TRUE, List(<< ItemNode("Big Mac", Num(5494)), DictNullPriceInfo >>))

Payloads == { PayloadBad, PayloadEmpty, PayloadBurgers, PayloadThreshold, PayloadLoose,
              PayloadKeyed, PayloadNullPriceInfo }

\* STATE_PATTERNS, by their place in the list; the fifth matches the script
\* tag of id __NEXT_DATA__ with its content.
StatePatterns == 1..8
NextDataTag == 5

\* One match of a pattern in a text: the pattern and what its group captures.
Match(pattern, payload) == [pattern |-> pattern, payload |-> payload]

\* A stretch of the page in document order, a script block or the text
\* outside the scripts: the pattern matches that lie in its text, in order,
\* whether it holds the marker __RELAY_STORE__ or __APOLLO_STATE__, the
\* balanced-brace objects of its text, and, for a script, whether its tag is
\* the one of the fifth pattern (its content is then the payload captured).
Block(script, matches, marked, objects, tag) ==
    [script |-> script, matches |-> matches, marked |-> marked,
     objects |-> objects, tag |-> tag]

\* The matches of one pattern in a text, as payloads.
MatchesOf(pattern, matches) ==
    LET hits == SelectSeq(matches, LAMBDA m : m.pattern = pattern)
    IN  [ i \in DOMAIN hits |-> hits[i].payload ]

\* pattern.finditer(html) for one pattern: the text of a script is part of
\* the page, so the matches in the page are those of its blocks, and those
\* of the script tags for the fifth pattern.
RECURSIVE PageMatches(_, _)
PageMatches(pattern, html) ==
    IF html = << >> THEN << >>
    ELSE LET b == Head(html)
         IN  (IF pattern = NextDataTag /\ b.script /\ b.tag # None
              THEN << Val(b.tag) >> ELSE << >>)
             \o MatchesOf(pattern, b.matches)
             \o PageMatches(pattern, Tail(html))

\* Lines 124-129: the loop over STATE_PATTERNS on the whole page.
RECURSIVE DirectMatches(_, _)
DirectMatches(pattern, html) ==
    IF pattern > 8 THEN << >>
    ELSE PageMatches(pattern, html) \o DirectMatches(pattern + 1, html)

\* Lines 151-155: pattern.search(text) for each pattern on one script.
RECURSIVE ScriptMatches(_, _)
ScriptMatches(pattern, block) ==
    IF pattern > 8 THEN << >>
    ELSE (IF MatchesOf(pattern, block.matches) # << >>
          THEN << Head(MatchesOf(pattern, block.matches)) >> ELSE << >>)
         \o ScriptMatches(pattern + 1, block)

\* Lines 138-160: the loop over the script tags.
RECURSIVE ScriptPayloads(_)
ScriptPayloads(html) ==
    IF html = << >> THEN << >>
    ELSE LET b == Head(html)
         IN  (IF b.script
              THEN ScriptMatches(1, b)
                   \o (IF b.marked THEN \* _extract_json_from_script(text)
                                        b.objects
                       ELSE << >>)
              ELSE << >>)
             \o ScriptPayloads(Tail(html))

\* _extract_state_payloads with the script tags parsed whatever the
\* patterns matched in the page.
extract_state_payloadsMutNoGuard(html) ==
    DirectMatches(1, html) \o ScriptPayloads(html)

\* _extract_state_payloads(html)
extract_state_payloads(html) ==
    LET payloads == DirectMatches(1, html)
    IN  IF payloads = << >> THEN ScriptPayloads(html) ELSE payloads

\* The pages of the model, for payloads ps: the payloads assigned in one
\* script; a script with a marker and no assignment a pattern matches; the
\* same without the marker; and a page with a marked script, text outside the
\* scripts and a __NEXT_DATA__ script, matched by several patterns.
HtmlDirect(ps) ==
    << Block(TRUE, [ k \in DOMAIN ps |-> Match(1, ps[k]) ], FALSE, ps, None) >>
HtmlRelay(ps) == << Block(TRUE, << >>, TRUE, ps, None) >>
HtmlUnmarked(ps) == << Block(TRUE, << >>, FALSE, ps, None) >>
HtmlMixed(ps) ==
    << Block(TRUE, << >>, TRUE, << PayloadBurgers >>, None),
       Block(FALSE, [ k \in DOMAIN ps |-> Match(IF k = 1 THEN 8 ELSE 3, ps[k]) ],
             TRUE, ps, None),
       Block(TRUE, [ k \in DOMAIN ps |-> Match(IF k = 1 THEN 6 ELSE 1, ps[k]) ],
             TRUE, ps, IF ps = << >> THEN None ELSE Some(ps[1])) >>

\* What _fetch gets from the store: an error, or a page.
StorePage(status, html) == [status |-> status, html |-> html]
StorePages ==
    { StorePage("error", << >>) }
    \cup { StorePage("ok", HtmlDirect(ps)) :
             ps \in UNION { [1..k -> Payloads] : k \in 0..MaxPayloads } }
    \cup UNION { { StorePage("ok", HtmlRelay(ps)), StorePage("ok", HtmlUnmarked(ps)),
                   StorePage("ok", HtmlMixed(ps)) } :
                   ps \in UNION { [1..k -> Payloads] : k \in 0..1 } }

\* price_retrieved_at: datetime = datetime.now(timezone.utc): the default is
\* evaluated once, when the class statement runs at the load of the module.
price_retrieved_at_default == 0

\* UberEatsMenuItem(restaurant=..., name=..., price=..., category=..., ...):
\* fetch_menu passes no price_retrieved_at.
UberEatsMenuItem(restaurant, name, price, category) ==
    [restaurant |-> restaurant, name |-> name, price |-> price, category |-> category,
     price_retrieved_at |-> price_retrieved_at_default]

\* The candidates of all payloads, in payload and walk order: lines 65-70.
RECURSIVE Extracted(_)
Extracted(payloads) ==
    IF payloads = << >> THEN << >>
    ELSE IF ~Head(payloads).valid
    THEN \* except json.JSONDecodeError: continue
         Extracted(Tail(payloads))
    ELSE walk(Head(payloads).root, None) \o Extracted(Tail(payloads))

\* Each candidate with its source price and the price parsed from it.
Priced(extracted) ==
    [ i \in DOMAIN extracted |->
        [name |-> extracted[i].name,
         category |-> extracted[i].category,
         source |-> extracted[i].price,
         price |-> UberEatsScraper_parse_price(extracted[i].price)] ]

\* Lines 73-90: the candidates with a price and a name.
Collected(restaurant, priced) ==
    LET kept == SelectSeq(priced, LAMBDA c :
                    /\ c.price # None
                    /\ clean_name(c.name) # None
                    /\ Val(clean_name(c.name)) # "")
    IN  [ i \in DOMAIN kept |->
            UberEatsMenuItem(restaurant, Val(clean_name(kept[i].name)),
                             Val(kept[i].price), clean_name(kept[i].category)) ]

\* key = (item.name.lower(), item.category.lower() if item.category else None)
DedupKey(item) ==
    << lower(item.name),
       IF item.category = None THEN None
       ELSE IF Val(item.category) = "" THEN None
       ELSE Some(lower(Val(item.category))) >>

\* The dict filled with deduped[key] = item for every item: the last one of
\* a key replaces the first.
RECURSIVE DedupeMutKeepLast(_, _)
DedupeMutKeepLast(items, deduped) ==
    IF items = << >> THEN deduped
    ELSE LET item == Head(items)
         IN  IF \E i \in DOMAIN deduped : DedupKey(deduped[i]) = DedupKey(item)
             THEN DedupeMutKeepLast(Tail(items),
                      [ i \in DOMAIN deduped |->
                          IF DedupKey(deduped[i]) = DedupKey(item) THEN item
                          ELSE deduped[i] ])
             ELSE DedupeMutKeepLast(Tail(items), Append(deduped, item))

\* Lines 93-100: the values of the dict deduped, in insertion order.
RECURSIVE Dedupe(_, _)
Dedupe(items, deduped) ==
    IF items = << >> THEN deduped
    ELSE LET item == Head(items)
         IN  IF \E i \in DOMAIN deduped : DedupKey(deduped[i]) = DedupKey(item)
             THEN Dedupe(Tail(items), deduped)
             ELSE Dedupe(Tail(items), Append(deduped, item))

\* fetch_menu is called and awaits _fetch: line 60.
FetchMenuCall ==
    /\ fm_pc = "idle"
    /\ fm_pc' = "fetching"
    /\ fm_started' = Some(clock)
    /\ UNCHANGED << store_page, clock, fm_payloads, fm_priced, fm_items >>
    /\ UNCHANGED notMenuVars

\* _fetch raises: fetch_menu raises to its caller.
MenuFetchFails ==
    /\ fm_pc = "fetching"
    /\ store_page.status = "error"
    /\ fm_pc' = "raised"
    /\ UNCHANGED << store_page, clock, fm_started, fm_payloads, fm_priced, fm_items >>
    /\ UNCHANGED notMenuVars

\* list(self._extract_items(parsed)) raises for one of the payloads, line 70:
\* fetch_menu raises to its caller.
ExtractRaises(payloads) ==
    \E i \in DOMAIN payloads : payloads[i].valid /\ walk_raises(payloads[i].root)

\* _fetch returns the page and the walk of a payload raises: lines 61-70.
MenuWalkRaises ==
    /\ fm_pc = "fetching"
    /\ store_page.status = "ok"
    /\ ExtractRaises(extract_state_payloads(store_page.html))
    /\ fm_payloads' = extract_state_payloads(store_page.html)
    /\ fm_pc' = "raised"
    /\ UNCHANGED << store_page, clock, fm_started, fm_priced, fm_items >>
    /\ UNCHANGED notMenuVars

\* _fetch returns the page: lines 61-100.
MenuFetchReturns ==
    /\ fm_pc = "fetching"
    /\ store_page.status = "ok"
    /\ ~ExtractRaises(extract_state_payloads(store_page.html))
    /\ fm_payloads' = extract_state_payloads(store_page.html)
    /\ LET priced == Priced(Extracted(extract_state_payloads(store_page.html)))
           items == Collected("McDonald's", priced)
       IN  /\ fm_priced' = priced
           /\ fm_items' = Dedupe(items, << >>)
    /\ fm_pc' = "returned"
    /\ UNCHANGED << store_page, clock, fm_started >>
    /\ UNCHANGED notMenuVars

MenuInit ==
    /\ GateInit
    /\ scorer_in = None
    /\ scorer_out = None
    /\ ScrapeIdle
    /\ RankIdle
    /\ store_page \in StorePages
    /\ MenuNotCalled
    /\ StoreIdle
    /\ DbIdle

\* Time passes, before the call and while it awaits the page.
MenuTick ==
    /\ fm_pc \in {"idle", "fetching"}
    /\ clock < MaxClock
    /\ clock' = clock + 1
    /\ UNCHANGED << store_page, fm_pc, fm_started, fm_payloads, fm_priced, fm_items >>
    /\ UNCHANGED notMenuVars

MenuNext ==
    \/ MenuTick
    \/ FetchMenuCall
    \/ MenuFetchFails
    \/ MenuWalkRaises
    \/ MenuFetchReturns

MenuSpec == MenuInit /\ [][MenuNext]_vars

(* ---------------------------------------------- ubereats_store_search --- *)
\* The most restaurants named in one import request.
MaxRestaurants == 2

\* return unique_stores[:10]
TopResults == 10

SUPPORTED_UBER_EATS_RESTAURANTS ==
    << "McDonald's", "KFC", "Taco Bell", "Wendy's", "Burger King", "Chick-fil-A",
       "Subway", "Popeyes" >>

\* The restaurants whose search results vary in the model; the last one is no
\* supported chain.
Searched == << "McDonald's", "Taco Bell", "Joe's Diner" >>

RestaurantNames ==
    { SUPPORTED_UBER_EATS_RESTAURANTS[i] : i \in DOMAIN SUPPORTED_UBER_EATS_RESTAURANTS }
    \cup { Searched[i] : i \in DOMAIN Searched }

\* slug_map.get(restaurant_name.lower().strip()), on the names of the model.
base_slug(restaurant_name) ==
    CASE restaurant_name = "McDonald's" -> Some("mcdonalds")
      [] restaurant_name = "KFC" -> Some("kfc")
      [] restaurant_name = "Taco Bell" -> Some("taco-bell")
      [] restaurant_name = "Wendy's" -> Some("wendys")
      [] restaurant_name = "Burger King" -> Some("burger-king")
      [] restaurant_name = "Chick-fil-A" -> Some("chick-fil-a")
      [] restaurant_name = "Subway" -> Some("subway")
      [] restaurant_name = "Popeyes" -> Some("popeyes")
      [] OTHER -> None

\* str.title(), on the texts of the model.
title(text) ==
    CASE text = "mcdonalds college park" -> "Mcdonalds College Park"
      [] text = "mcdonalds hyattsville" -> "Mcdonalds Hyattsville"
      [] text = "taco bell college park" -> "Taco Bell College Park"
      [] text = "taco bell hyattsville" -> "Taco Bell Hyattsville"
      [] text = "joes diner" -> "Joes Diner"
      [] text = "joes diner hyattsville" -> "Joes Diner Hyattsville"
      [] text = "McDonald's" -> "Mcdonald'S"
      [] text = "Wendy's" -> "Wendy'S"
      [] text = "KFC" -> "Kfc"
      [] text = "Chick-fil-A" -> "Chick-Fil-A"
      [] OTHER -> text

\* store_name_slug.replace('-', ' '), on the slugs of the model.
Spaced(slug) ==
    CASE slug = "mcdonalds-college-park" -> "mcdonalds college park"
      [] slug = "mcdonalds-hyattsville" -> "mcdonalds hyattsville"
      [] slug = "taco-bell-college-park" -> "taco bell college park"
      [] slug = "taco-bell-hyattsville" -> "taco bell hyattsville"
      [] slug = "joes-diner" -> "joes diner"
      [] slug = "joes-diner-hyattsville" -> "joes diner hyattsville"

\* Lines 285-286: the lowercased name, its spaces made dashes or its
\* apostrophes dropped, is in the slug.
SlugContains(restaurant_name, slug) ==
    \/ /\ restaurant_name = "McDonald's"
       /\ slug \in {"mcdonalds-college-park", "mcdonalds-hyattsville"}
    \/ /\ restaurant_name = "Taco Bell"
       /\ slug \in {"taco-bell-college-park", "taco-bell-hyattsville"}

UberEatsStore(name, store_id) == [name |-> name, store_id |-> store_id]

\* One href the pattern of line 269 matches: the slug before the first "/"
\* and the part after it (None: the path has one part).
Anchor(slug, id) == [slug |-> slug, id |-> id]

\* One dict of the embedded JSON with a name key and a uuid key.
StoreObject(name, uuid) == [name |-> name, uuid |-> uuid]

\* What the search request answers: an error, or a page with its hrefs and
\* the store objects of its embedded JSON, in document order.
Listing(status, anchors, objects) ==
    [status |-> status, anchors |-> anchors, objects |-> objects]

\* The opaque ids of the stores of the platform.
Ids == << "s01", "s02", "s03", "s04", "s05", "s06", "s07", "s08", "s09", "s10",
          "s11", "s12", "s13", "s14", "s15" >>

ChainSlug(restaurant_name) ==
    CASE restaurant_name = "McDonald's" -> "mcdonalds-college-park"
      [] restaurant_name = "Taco Bell" -> "taco-bell-college-park"
      [] OTHER -> "joes-diner"
AltSlug(restaurant_name) ==
    CASE restaurant_name = "McDonald's" -> "mcdonalds-hyattsville"
      [] restaurant_name = "Taco Bell" -> "taco-bell-hyattsville"
      [] OTHER -> "joes-diner-hyattsville"
OtherName(restaurant_name) ==
    IF restaurant_name = "McDonald's" THEN "Taco Bell" ELSE "McDonald's"

ListingError == Listing("error", << >>, << >>)
ListingNone == Listing("ok", << >>, << >>)
\* 15 matches with distinct store ids.
ListingFifteen(r) ==
    Listing("ok", [ k \in 1..15 |-> Anchor(ChainSlug(r), Some(Ids[k])) ], << >>)
\* Matches with repeated ids, a store of another chain and a path of one part.
ListingDups(r) ==
    Listing("ok",
            << Anchor(ChainSlug(r), Some(Ids[1])),
               Anchor(ChainSlug(OtherName(r)), Some(Ids[2])),
               Anchor(AltSlug(r), Some(Ids[1])),
               Anchor(ChainSlug(r), None),
               Anchor(AltSlug(r), Some(Ids[3])),
               Anchor(ChainSlug(r), Some(Ids[3])) >>,
            << StoreObject(r, "e01") >>)
\* 20 matches of 12 stores.
ListingManyDups(r) ==
    Listing("ok",
            [ k \in 1..20 |->
                IF k <= 8 THEN Anchor(ChainSlug(r), Some(Ids[k]))
                ELSE IF k <= 16 THEN Anchor(AltSlug(r), Some(Ids[k - 8]))
                ELSE Anchor(ChainSlug(r), Some(Ids[k - 8])) ],
            << >>)
\* No match among the hrefs; stores in the embedded JSON.
ListingEmbedded(r) ==
    Listing("ok",
            << Anchor(ChainSlug(OtherName(r)), Some(Ids[2])) >>,
            << StoreObject(r, "e01"), StoreObject(r, ""),
               StoreObject(OtherName(r), "e02"), StoreObject(r, "e03"),
               StoreObject(r, "e01") >>)

ListingsOf(r) ==
    CASE r = "McDonald's" ->
             { ListingError, ListingNone, ListingFifteen(r), ListingDups(r),
               ListingManyDups(r), ListingEmbedded(r) }
      [] r = "Taco Bell" -> { ListingError, ListingNone, ListingDups(r) }
      [] r = "Joe's Diner" -> { ListingError, ListingNone, ListingEmbedded(r) }
      [] OTHER -> { ListingNone }

\* What the geocoding service may answer.
Coordinates == { [lat |-> 39, lon |-> 0 - 77], [lat |-> 0, lon |-> 0 - 77] }

\* The first n elements of a list: seq[:n].
Take(seq, n) == SubSeq(seq, 1, IF Len(seq) < n THEN Len(seq) ELSE n)

\* Lines 277-307: the stores of the hrefs that carry the restaurant's name.
RECURSIVE AnchorStores(_, _)
AnchorStores(restaurant_name, anchors) ==
    IF anchors = << >> THEN << >>
    ELSE LET a == Head(anchors)
             rest == AnchorStores(restaurant_name, Tail(anchors))
         IN  IF SlugContains(restaurant_name, a.slug) /\ a.id # None
             THEN << UberEatsStore(title(Spaced(a.slug)), Val(a.id)) >> \o rest
             ELSE rest

\* _extract_stores_from_data: _looks_like_store and _create_store_from_object
\* on each dict.
RECURSIVE extract_stores_from_data(_, _)
extract_stores_from_data(restaurant_name, objects) ==
    IF objects = << >> THEN << >>
    ELSE LET obj == Head(objects)
             rest == extract_stores_from_data(restaurant_name, Tail(objects))
         IN  IF obj.name = restaurant_name /\ obj.uuid # ""
             THEN << UberEatsStore(obj.name, obj.uuid) >> \o rest
             ELSE rest

\* The deduplication with the last store of an id kept in place of the first.
RECURSIVE UniqueStoresMutKeepLast(_, _)
UniqueStoresMutKeepLast(stores, unique_stores) ==
    IF stores = << >> THEN unique_stores
    ELSE LET store == Head(stores)
         IN  IF \E i \in DOMAIN unique_stores : unique_stores[i].store_id = store.store_id
             THEN UniqueStoresMutKeepLast(Tail(stores),
                      [ i \in DOMAIN unique_stores |->
                          IF unique_stores[i].store_id = store.store_id THEN store
                          ELSE unique_stores[i] ])
             ELSE UniqueStoresMutKeepLast(Tail(stores), Append(unique_stores, store))

\* Lines 336-342: deduplicate by store_id.
RECURSIVE UniqueStores(_, _)
UniqueStores(stores, unique_stores) ==
    IF stores = << >> THEN unique_stores
    ELSE LET store == Head(stores)
         IN  IF \E i \in DOMAIN unique_stores : unique_stores[i].store_id = store.store_id
             THEN UniqueStores(Tail(stores), unique_stores)
             ELSE UniqueStores(Tail(stores), Append(unique_stores, store))

\* _parse_search_results with the embedded JSON searched whatever the hrefs
\* gave.
parse_search_resultsMutMerge(restaurant_name, page) ==
    Take(UniqueStores(AnchorStores(restaurant_name, page.anchors)
                        \o extract_stores_from_data(restaurant_name, page.objects),
                      << >>),
         TopResults)

\* _parse_search_results(html, restaurant_name, ...)
parse_search_results(restaurant_name, page) ==
    LET from_anchors == AnchorStores(restaurant_name, page.anchors)
        stores == IF from_anchors = << >>
                  THEN extract_stores_from_data(restaurant_name, page.objects)
                  ELSE from_anchors
    IN  Take(UniqueStores(stores, << >>), TopResults)

\* _try_direct_store_url(restaurant_name, ...)
try_direct_store_url(restaurant_name) ==
    IF base_slug(restaurant_name) # None
    THEN << UberEatsStore(title(restaurant_name), Val(base_slug(restaurant_name))) >>
    ELSE << >>

\* _search_uber_eats(restaurant_name, location, lat, lon)
search_uber_eats(restaurant_name, page) ==
    IF page.status = "error"
    THEN \* except Exception: stores is still []
         << >>
    ELSE LET stores == parse_search_results(restaurant_name, page)
         IN  IF stores = << >> THEN try_direct_store_url(restaurant_name)
             ELSE stores

\* What a call gives its caller: a list, or an exception.
StoresRaised == [ok |-> FALSE, stores |-> << >>]
StoresReturned(stores) == [ok |-> TRUE, stores |-> stores]

\* search_stores with neither the test of the coordinates nor the handler of
\* line 81: coordinates of None reach _build_pl_parameter, whose round()
\* raises.
search_storesMutNoCatch(restaurant_name, coords, geo, page) ==
    LET c == IF coords = None THEN geo ELSE coords
    IN  IF c = None THEN StoresRaised
        ELSE StoresReturned(search_uber_eats(restaurant_name, page))

\* search_stores(restaurant_name, location, lat=..., lon=...): coords is the
\* pair passed (None: not passed), geo what the geocoder answers.
search_stores(restaurant_name, coords, geo, page) ==
    LET c == IF coords = None THEN geo ELSE coords
    IN  IF c = None \/ Val(c).lat = 0 \/ Val(c).lon = 0
        THEN \* if not lat or not lon: return []
             StoresReturned(<< >>)
        ELSE StoresReturned(search_uber_eats(restaurant_name, page))

\* search_stores is called by itself, with or without coordinates.
SearchStoresCall(restaurant_name, coords) ==
    /\ ss_pc = "idle"
    /\ im_pc = "idle"
    /\ LET result == search_stores(restaurant_name, coords, geocoder,
                                   listing[restaurant_name])
       IN  /\ ss_pc' = IF result.ok THEN "returned" ELSE "raised"
           /\ ss_stores' = result.stores
    /\ ss_call' = [restaurant_name |-> restaurant_name, coords |-> coords]
    /\ UNCHANGED << geocoder, listing, im_pc, im_request, im_i, im_searched,
                    skipped, store_targets, im_status >>
    /\ UNCHANGED notStoreVars

\* An import payload: restaurants (empty: not given) and the number of
\* store_urls; location is required by the schema.
ImportRequests ==
    { [restaurants |-> rs, store_urls |-> n] :
        rs \in UNION { [1..k -> { Searched[i] : i \in DOMAIN Searched }] :
                         k \in 0..MaxRestaurants },
        n \in 0..1 }

StoreTarget(restaurant, store_external_id, store_name, source) ==
    [restaurant |-> restaurant, store_external_id |-> store_external_id,
     store_name |-> store_name, source |-> source]

\* Lines 650-671: the targets of the store URLs supplied.
ManualTargets(restaurants_to_fetch, n) ==
    [ idx \in 1..n |->
        LET restaurant_name == IF idx <= Len(restaurants_to_fetch)
                               THEN restaurants_to_fetch[idx]
                               ELSE "Uber Eats Store"
        IN  StoreTarget(restaurant_name, "manual", restaurant_name, "manual") ]

\* restaurants_to_fetch, lines 632-634
restaurants_to_fetch ==
    IF im_request.restaurants # << >> THEN im_request.restaurants
    ELSE SUPPORTED_UBER_EATS_RESTAURANTS

\* import_ubereats_menus up to the loop of line 675: lines 620-672.
ImportCall(request) ==
    /\ im_pc = "idle"
    /\ ss_pc = "idle"
    /\ im_request' = request
    /\ IF geocoder = None
       THEN \* raise HTTPException(status_code=400, ...)
            /\ im_pc' = "raised"
            /\ im_status' = 400
            /\ UNCHANGED << im_i, store_targets >>
       ELSE /\ im_pc' = "searching"
            /\ im_i' = 1
            /\ store_targets' =
                   ManualTargets(IF request.restaurants # << >> THEN request.restaurants
                                 ELSE SUPPORTED_UBER_EATS_RESTAURANTS,
                                 request.store_urls)
            /\ UNCHANGED im_status
    /\ UNCHANGED << geocoder, listing, ss_pc, ss_call, ss_stores, im_searched, skipped >>
    /\ UNCHANGED notStoreVars

Skip(restaurant, reason) == [restaurant |-> restaurant, reason |-> reason]

\* One turn of the loop of lines 675-716.
ImportSearch ==
    /\ im_pc = "searching"
    /\ im_i <= Len(restaurants_to_fetch)
    /\ LET restaurant == restaurants_to_fetch[im_i]
           result == search_stores(restaurant, geocoder, geocoder, listing[restaurant])
       IN  /\ im_searched' = Append(im_searched, result)
           /\ IF ~result.ok
              THEN /\ skipped' = Append(skipped, Skip(restaurant, "store search failed"))
                   /\ UNCHANGED store_targets
              ELSE IF result.stores = << >>
              THEN /\ skipped' = Append(skipped, Skip(restaurant, "no stores found"))
                   /\ UNCHANGED store_targets
              ELSE /\ store_targets' =
                          Append(store_targets,
                                 StoreTarget(restaurant, result.stores[1].store_id,
                                             result.stores[1].name, "auto"))
                   /\ UNCHANGED skipped
    /\ im_i' = im_i + 1
    /\ UNCHANGED << geocoder, listing, ss_pc, ss_call, ss_stores, im_pc, im_request,
                    im_status >>
    /\ UNCHANGED notStoreVars

\* After the loop: lines 718-722.
ImportTargets ==
    /\ im_pc = "searching"
    /\ im_i > Len(restaurants_to_fetch)
    /\ IF store_targets = << >>
       THEN \* raise HTTPException(status_code=404, ...)
            /\ im_pc' = "raised"
            /\ im_status' = 404
       ELSE /\ im_pc' = "scraping"
            /\ UNCHANGED im_status
    /\ UNCHANGED << geocoder, listing, ss_pc, ss_call, ss_stores, im_request, im_i,
                    im_searched, skipped, store_targets >>
    /\ UNCHANGED notStoreVars

StoreInit ==
    /\ GateInit
    /\ scorer_in = None
    /\ scorer_out = None
    /\ ScrapeIdle
    /\ RankIdle
    /\ MenuIdle
    /\ geocoder \in { None } \cup { Some(c) : c \in Coordinates }
    /\ \E f \in [ { Searched[i] : i \in DOMAIN Searched } -> 
                    UNION { ListingsOf(Searched[i]) : i \in DOMAIN Searched } ] :
           /\ \A i \in DOMAIN Searched : f[Searched[i]] \in ListingsOf(Searched[i])
           /\ listing = [ r \in RestaurantNames |->
                            IF r \in DOMAIN f THEN f[r] ELSE ListingNone ]
    /\ StoreNotCalled
    /\ DbIdle

StoreNext ==
    \/ \E i \in DOMAIN Searched, c \in { None } \cup { Some(c) : c \in Coordinates } :
           SearchStoresCall(Searched[i], c)
    \/ \E request \in ImportRequests : ImportCall(request)
    \/ ImportSearch
    \/ ImportTargets

StoreSpec == StoreInit /\ [][StoreNext]_vars

(* ----------------------------------------------------------- claims --- *)
\* The tasks whose acquire appended a timestamp in the window ending at t0.
ApprovedInWindow(t0) ==
    { t \in Tasks : /\ approvedAt[t] # None
                    /\ Val(approvedAt[t]) >= t0 - time_window
                    /\ Val(approvedAt[t]) <= t0 }

InvokedInWindow(t0) ==
    { t \in Tasks : /\ invokedAt[t] # None
                    /\ Val(invokedAt[t]) >= t0 - time_window
                    /\ Val(invokedAt[t]) <= t0 }

\* C1: at every instant, at most max_requests acquisitions were approved in
\* the trailing time_window, whatever the number of callers and their
\* interleaving.
C1_WindowBound ==
    \A t0 \in 0..now : Cardinality(ApprovedInWindow(t0)) <= max_requests

\* C1 witness: the window is full and a caller that had to sleep was approved.
C1_Witness ==
    /\ Cardinality(ApprovedInWindow(now)) = max_requests
    /\ \E t \in Tasks : wakeAt[t] # None /\ approvedAt[t] # None

\* C2: at most one caller is inside the locked part of acquire: a caller
\* suspended inside it holds the lock, nobody else holds it, and while the
\* lock is held the deque is changed by its holder alone.
C2_MutualExclusion ==
    /\ [](/\ Cardinality({ t \in Tasks : pc[t] = "sleeping" }) <= 1
          /\ \A t \in Tasks : pc[t] = "sleeping" => lock = t
          /\ lock # 0 => pc[lock] = "sleeping")
    /\ [][(lock # 0 /\ requests' # requests)
            => (pc[lock] = "sleeping" /\ pc'[lock] = "done" /\ lock' = 0)]_vars

\* C2 witness: a caller is suspended inside acquire, holding the lock, with
\* the deque full.
C2_Witness ==
    \E s \in Tasks : pc[s] = "sleeping" /\ lock = s /\ Len(requests) = max_requests

\* C3 (as claimed): while one caller sleeps inside acquire, no other caller
\* has to wait to evaluate the deque.
C3_SleepersDoNotBlock ==
    \A s, t \in Tasks : pc[s] = "sleeping" => pc[t] # "waiting"

\* C3 (amended): a caller sleeping inside acquire keeps the lock: as long as
\* it sleeps nobody else reads the clock, prunes or appends, and every other
\* caller of acquire queues for the lock; when it wakes it prunes the deque
\* again and appends the time of its waking.
C3_SleeperKeepsLock ==
    [][\A s \in Tasks :
         /\ (pc[s] = "sleeping" /\ pc'[s] = "sleeping")
              => /\ requests' = requests
                 /\ evalAt' = evalAt
                 /\ approvedAt' = approvedAt
                 /\ lock' = s
                 /\ \A t \in Tasks : pc'[t] # pc[t]
                        => (pc'[t] = "waiting" \/ (pc'[t] = "done" /\ evalAt[t] = None))
         /\ (pc[s] = "sleeping" /\ pc'[s] = "done")
              => /\ requests' # << >>
                 /\ requests'[Len(requests')] = now
                 /\ \A i \in DOMAIN requests' : requests'[i] >= now - time_window
      ]_vars

\* C3 witness: a caller queues for the lock while another sleeps holding it.
C3_Witness ==
    \E s, t \in Tasks : pc[s] = "sleeping" /\ lock = s /\ pc[t] = "waiting"

\* The calls suspended inside acquire.  A call is there for one stretch only
\* (waiting, then sleeping, then done), so "whenever some call is inside,
\* later none is" says that each of them returns.
InAcquire == { t \in Tasks : pc[t] \in {"waiting", "sleeping"} }

\* C4: with max_requests >= 1, every call of acquire returns (a fair
\* scheduler, time advancing), and acquire never raises: a call without
\* nutrition always comes back with a token taken.
C4_AcquireCompletes ==
    /\ (InAcquire # {}) ~> (InAcquire = {})
    /\ [](ret # None /\ ~(Val(ret).args.calories # None /\ Val(Val(ret).args.calories) > 0)
            => Val(ret).acquired)

\* C4 witness: every call has returned, one of them after sleeping.
C4_Witness ==
    /\ \A t \in Tasks : pc[t] = "done"
    /\ \E t \in Tasks : wakeAt[t] # None /\ approvedAt[t] # None
    /\ \E t \in Tasks : approvedAt[t] # None /\ evalAt[t] # None
                         /\ wakeAt[t] = None /\ Val(evalAt[t]) > 0

\* The approvals a caller found in the window when it read the clock.
SeenBy(t) ==
    { u \in Tasks \ {t} : /\ approvedAt[u] # None
                          /\ Val(approvedAt[u]) >= Val(evalAt[t]) - time_window
                          /\ Val(approvedAt[u]) <= Val(evalAt[t]) }

Oldest(S) == CHOOSE x \in { Val(approvedAt[u]) : u \in S } :
                 \A y \in { Val(approvedAt[u]) : u \in S } : x <= y

\* C5: a caller that finds fewer than max_requests approvals in the window is
\* admitted at once, without sleeping; a caller that finds max_requests of
\* them sleeps a nonzero time, until the oldest of them has left the window
\* plus the margin, and is admitted only then.
C5_WaitOnOverflow ==
    \A t \in Tasks :
        evalAt[t] # None =>
            /\ Cardinality(SeenBy(t)) < max_requests
                 => (wakeAt[t] = None /\ approvedAt[t] = evalAt[t])
            /\ wakeAt[t] # None
                 => /\ Cardinality(SeenBy(t)) = max_requests
                    /\ Val(wakeAt[t]) > Val(evalAt[t])
                    /\ Val(wakeAt[t]) = Oldest(SeenBy(t)) + time_window + SleepMargin
                    /\ approvedAt[t] # None
                         => /\ Val(approvedAt[t]) >= Val(wakeAt[t])
                            /\ Oldest(SeenBy(t)) < Val(approvedAt[t]) - time_window

\* C5 witness: max_requests + 1 calls at tick 0 on the empty gate: the first
\* max_requests admitted at 0, the last one after its sleep.
C5_Witness ==
    /\ Cardinality({ t \in Tasks : approvedAt[t] = Some(0) /\ wakeAt[t] = None })
         = max_requests
    /\ \E t \in Tasks : /\ evalAt[t] = Some(0)
                        /\ wakeAt[t] = Some(time_window + SleepMargin)
                        /\ approvedAt[t] = Some(time_window + SleepMargin)

\* C6: every call of the estimator follows an acquire the same task has
\* completed, so at every instant at most max_requests estimator calls were
\* started in the trailing time_window.
C6_EstimatorBehindGate ==
    /\ \A t \in Tasks :
          invokedAt[t] # None
            => /\ approvedAt[t] # None
               /\ Val(approvedAt[t]) <= Val(invokedAt[t])
               /\ pc[t] = "done"
    /\ \A t0 \in 0..now : Cardinality(InvokedInWindow(t0)) <= max_requests

\* C6 witness: more estimator calls than max_requests were made in all, with
\* the window full.
C6_Witness ==
    /\ Cardinality({ t \in Tasks : invokedAt[t] # None }) > max_requests
    /\ Cardinality(InvokedInWindow(now)) = max_requests

\* C7: a call with calories > 0 takes no token and does not call the
\* estimator; it scores the provided calories and the provided protein
\* (0 when absent).
C7_ProvidedNutrition ==
    ret # None =>
        LET r == Val(ret)
            a == r.args
        IN  (a.calories # None /\ Val(a.calories) > 0)
              => LET protein == IF a.protein_grams = None THEN 0
                                ELSE Val(a.protein_grams)
                     scores == calculate_final_value_score(
                                   a.calories, Some(protein), a.price)
                 IN  /\ ~r.acquired
                     /\ r.reply = None
                     /\ r.result.calories = Val(a.calories)
                     /\ r.result.protein_grams = protein
                     /\ r.result.value_score = scores.value_score
                     /\ r.result.satiety_score = scores.satiety_score
                     /\ r.result.price_per_calorie = scores.price_per_calorie

\* C7 witness: a call with calories and no protein has returned while the
\* gate was in use.
C7_Witness ==
    /\ ret # None
    /\ Val(ret).args.calories = Some(800)
    /\ Val(ret).args.protein_grams = None
    /\ requests # << >>

\* The replies the claim lists: the call raised, the text is no JSON (or no
\* JSON of numbers), or the calories it yields, once through int(), are not
\* positive (the key missing counts as 0).
FailedEstimate(reply) ==
    \/ reply.kind \in {"raises", "garbage", "badfield"}
    \/ reply.kind = "object"
         /\ (reply.calories = None \/ Val(reply.calories) < 10)

\* C8: without usable calories, when the estimator raises, answers no JSON
\* or yields calories <= 0, score_deal returns calories 600 and protein 20
\* with the scores of (600, 20, price).
C8_DefaultSubstitution ==
    ret # None =>
        LET r == Val(ret)
            a == r.args
        IN  (/\ a.calories = None \/ Val(a.calories) <= 0
             /\ r.reply # None
             /\ FailedEstimate(Val(r.reply)))
              => LET scores == calculate_final_value_score(Some(600), Some(20), a.price)
                 IN  /\ r.result.calories = 600
                     /\ r.result.protein_grams = 20
                     /\ r.result.value_score = scores.value_score
                     /\ r.result.satiety_score = scores.satiety_score
                     /\ r.result.price_per_calorie = scores.price_per_calorie

\* C8 witness: the estimator answered calories 0.5 and the defaults came back.
C8_Witness ==
    /\ ret # None
    /\ Val(ret).reply # None
    /\ Val(Val(ret).reply).calories = Some(5)
    /\ Val(ret).result.calories = 600

\* C9: on every path the result is fully populated and its scores are the
\* value calculator's for the returned calories, the returned protein and
\* the given price.
C9_ResultConsistency ==
    ret # None =>
        LET r == Val(ret)
            res == r.result
            scores == calculate_final_value_score(
                          Some(res.calories), Some(res.protein_grams), r.args.price)
        IN  /\ DOMAIN res = {"value_score", "satiety_score", "price_per_calorie",
                             "calories", "protein_grams"}
            /\ \A f \in DOMAIN res : res[f] \in Int
            /\ res.value_score = scores.value_score
            /\ res.satiety_score = scores.satiety_score
            /\ res.price_per_calorie = scores.price_per_calorie

\* C9 witness: a successful estimate (650 kcal from 650.7, 28 g) was returned.
C9_Witness ==
    /\ ret # None
    /\ Val(ret).acquired
    /\ Val(ret).result.calories = 650
    /\ Val(ret).result.protein_grams = 28

\* C10: for calories > 0, protein >= 0, price > 0 the satiety score and the
\* value score lie in [0, 100] and the value score is
\* round(0.4 * satiety_score + 0.6 * price_efficiency_score, 1), the price
\* efficiency being clamped to [0, 100].
C10_ScorerRange ==
    (/\ scorer_out # None
     /\ scorer_in.calories # None /\ Val(scorer_in.calories) > 0
     /\ scorer_in.protein_grams # None /\ Val(scorer_in.protein_grams) >= 0
     /\ scorer_in.price > 0)
      => LET o == Val(scorer_out)
         IN  /\ o.satiety_score \in 0..1000
             /\ o.price_efficiency_score \in 0..1000
             /\ o.value_score \in 0..1000
             /\ 10 * o.value_score - (4 * o.satiety_score + 6 * o.price_efficiency_score)
                  \in -4..4

\* C10 witness: a cheap, large meal: the price efficiency is clamped at 100.
C10_Witness ==
    /\ scorer_out # None
    /\ scorer_in.calories = Some(3000)
    /\ scorer_in.protein_grams = Some(100)
    /\ scorer_in.price = 99
    /\ Val(scorer_out).price_efficiency_score = 1000
    /\ Val(scorer_out).value_score > 900

\* C11: the scorer returns a full result on degenerate inputs: calories
\* absent or <= 0 give satiety 0 and price efficiency 0 whatever the protein
\* and the price, a negative protein counts as 0 in the satiety, and a
\* price <= 0 gives price efficiency 0.
C11_DegenerateInputs ==
    scorer_out # None =>
        LET o == Val(scorer_out)
            c == scorer_in.calories
            p == scorer_in.protein_grams
        IN  /\ DOMAIN o = {"value_score", "satiety_score", "price_per_calorie",
                           "price_efficiency_score"}
            /\ \A f \in DOMAIN o : o[f] \in Int
            /\ (c = None \/ Val(c) <= 0)
                 => (o.satiety_score = 0 /\ o.price_efficiency_score = 0)
            /\ (p # None /\ Val(p) < 0)
                 => o.satiety_score = calculate_satiety_score(c, Some(0))
            /\ scorer_in.price <= 0 => o.price_efficiency_score = 0

\* C11 witness: a meal of 800 kcal with protein -5 and price -0.99 was
\* scored: the satiety is that of the calories alone, the efficiency is 0.
C11_Witness ==
    /\ scorer_out # None
    /\ scorer_in.calories = Some(800)
    /\ scorer_in.protein_grams = Some(-5)
    /\ scorer_in.price = -99
    /\ Val(scorer_out).satiety_score > 0
    /\ Val(scorer_out).price_efficiency_score = 0

\* What each stage finds on a page, taken alone.
StructuredOutput(slug) == parse_structured_data(RestaurantOf(slug), site[slug])
ElementsOutput(slug) == HeuristicItems(RestaurantOf(slug), site[slug].elements, {})
TextOutput(slug) ==
    LET text_items == guess_items_from_text(site[slug].lines)
    IN  [ i \in DOMAIN text_items |->
            ScrapedMenuItem(RestaurantOf(slug), text_items[i].name, text_items[i].price) ]

StageOutput(stage, slug) ==
    CASE stage = "structured" -> StructuredOutput(slug)
      [] stage = "elements" -> ElementsOutput(slug)
      [] stage = "text" -> TextOutput(slug)

\* C12: scrape_restaurant returns the output of exactly one stage, the last
\* one it ran: when the structured data yield an item neither the element
\* heuristics nor the text scan runs, the text scan runs only when the
\* element heuristics yield nothing, and no two outputs are merged.
C12_StrictFallback ==
    \A i \in DOMAIN sc_results :
        (sc_results[i] # None /\ Val(sc_results[i]).ok) =>
            LET slug == sc_slugs[i]
                stages == sc_stages[i]
                items == Val(sc_results[i]).items
            IN  /\ stages \in { << "structured" >>, << "structured", "elements" >>,
                                << "structured", "elements", "text" >> }
                /\ StructuredOutput(slug) # << >> => stages = << "structured" >>
                /\ Len(stages) >= 2 => StructuredOutput(slug) = << >>
                /\ Len(stages) = 3 => ElementsOutput(slug) = << >>
                /\ ElementsOutput(slug) # << >> => Len(stages) <= 2
                /\ items = StageOutput(stages[Len(stages)], slug)

\* C12 witness: one page with structured data and markup the heuristics
\* match gave the structured items only; another page went down to the text
\* scan.
C12_Witness ==
    \E i, j \in DOMAIN sc_results :
        /\ sc_results[i] # None /\ Val(sc_results[i]).ok
        /\ sc_results[j] # None /\ Val(sc_results[j]).ok
        /\ site[sc_slugs[i]] = PageStructured
        /\ sc_stages[i] = << "structured" >>
        /\ Val(sc_results[i]).items = StructuredOutput(sc_slugs[i])
        /\ ElementsOutput(sc_slugs[i]) # << >>
        /\ sc_stages[j] = << "structured", "elements", "text" >>
        /\ Val(sc_results[j]).items # << >>

\* The targets a call of scrape_all asks for: all of them when none is named.
RequestedSlugs ==
    IF sc_arg = << >> THEN TargetSlugs ELSE { sc_arg[i] : i \in DOMAIN sc_arg }

\* A target whose scrape fails: unknown slug, or a failed fetch.
ScrapeFailsFor(slug) == slug \notin TargetSlugs \/ site[slug].status = "error"

\* C13: scrape_all returns, whichever targets fail, a mapping with one entry
\* for every requested target: the empty list for a failed target, and for
\* the others the records of their own scrape.
C13_FailureIsolation ==
    /\ sc_pc \in {"idle", "gathering", "returned"}
    /\ sc_pc = "returned" =>
        /\ aggregated # None
        /\ LET d == Val(aggregated)
           IN  /\ { d[i][1] : i \in DOMAIN d } = RequestedSlugs
               /\ \A i, j \in DOMAIN d : d[i][1] = d[j][1] => i = j
               /\ \A i \in DOMAIN d :
                     LET slug == d[i][1]
                     IN  IF ScrapeFailsFor(slug)
                         THEN d[i][2] = << >>
                         ELSE LET own == scrape_restaurant(slug, site[slug]).items
                              IN  d[i][2] = [ k \in DOMAIN own |-> to_dict(own[k]) ]

\* C13 witness: of two requested targets the first failed to fetch and the
\* second gave its records.
C13_Witness ==
    /\ sc_pc = "returned"
    /\ sc_arg = << "mcdonalds", "taco-bell" >>
    /\ site["mcdonalds"] = PageError
    /\ site["taco-bell"] = PageElements
    /\ aggregated # None
    /\ Len(Val(aggregated)) = 2
    /\ Val(aggregated)[1] = << "mcdonalds", << >> >>
    /\ Len(Val(aggregated)[2][2]) = 2

\* The keys of the returned dict, in its order.
AggregatedKeys == [ i \in DOMAIN Val(aggregated) |-> Val(aggregated)[i][1] ]

\* The place of a slug's first occurrence among the requested slugs.
FirstAt(slug) ==
    CHOOSE i \in DOMAIN sc_slugs :
        sc_slugs[i] = slug /\ \A j \in DOMAIN sc_slugs : sc_slugs[j] = slug => i <= j

\* C14: the entries of scrape_all's mapping come in the order of the slugs it
\* was given (a slug given twice stands where it first occurs), and the
\* responses of rank-all come in the order of the deals, whatever the order
\* the coroutines completed in.
C14_BatchOutputOrder ==
    /\ sc_pc = "returned" =>
          /\ \A a, b \in DOMAIN AggregatedKeys :
                a < b => FirstAt(AggregatedKeys[a]) < FirstAt(AggregatedKeys[b])
          /\ (\A i, j \in DOMAIN sc_slugs : sc_slugs[i] = sc_slugs[j] => i = j)
                => AggregatedKeys = sc_slugs
    /\ \A k \in DOMAIN results : results[k].deal_id = deals[k].id
    /\ (ra_pc = "returned" /\ batch_size >= 1) => Len(results) = Len(deals)

\* C14 witness: in both calls the coroutine given second completed first, and
\* both outputs are complete.
C14_Witness ==
    /\ sc_pc = "returned"
    /\ Len(sc_slugs) >= 2
    /\ sc_slugs[1] # sc_slugs[2]
    /\ sc_order[1] = 2
    /\ AggregatedKeys = sc_slugs
    /\ ra_pc = "returned"
    /\ batch_size >= 2
    /\ ra_order[1] = 2
    /\ Len(results) = Len(deals)
    /\ results[1].deal_id = deals[1].id

\* The coroutines gather has been given and that are not done.
InFlight == { p \in DOMAIN ra_task : ra_task[p] \in {"pending", "running"} }

\* C15 (as claimed): rank-all scores the deals in consecutive groups of at
\* most batch_size: never more than batch_size coroutines in flight, none of
\* a later group started before the earlier groups are done, and once the
\* request is over every deal has been scored exactly once.
C15_RankAllBatching ==
    /\ InFlight # {} => Cardinality(InFlight) <= batch_size
    /\ \A p, q \in DOMAIN ra_task :
          (p < q /\ ra_task[q] # "none" /\ ~InBatch(p)) => ra_task[p] = "done"
    /\ \A p \in DOMAIN ra_calls : ra_calls[p] <= 1
    /\ ra_pc \in {"returned", "raised"}
          => \A p \in DOMAIN deals :
                /\ ra_calls[p] = 1
                /\ Cardinality({ k \in DOMAIN results : results[k].deal_id = deals[p].id }) = 1

\* The key of a returned item: its name and its category, lowercased.
ItemKey(item) ==
    << lower(item.name),
       IF item.category = None THEN None ELSE Some(lower(Val(item.category))) >>

\* The candidates of the page that have a price and a name, in payload and
\* walk order.
Candidates == Collected("McDonald's", fm_priced)

\* The place of the first candidate with the key of item.
FirstCandidate(item) ==
    CHOOSE i \in DOMAIN Candidates :
        /\ ItemKey(Candidates[i]) = ItemKey(item)
        /\ \A j \in 1..(i - 1) : ItemKey(Candidates[j]) # ItemKey(item)

\* C16: fetch_menu returns no two items with the same (lowercased name,
\* lowercased category) key, the item kept for a key is the first candidate
\* with that key in payload and walk order, the kept items are in the order
\* of their first occurrence, and every returned item has a price: a
\* candidate whose price does not resolve is not returned.
C16_DedupedAndPriced ==
    fm_pc = "returned" =>
        /\ \A i, j \in DOMAIN fm_items :
               i # j => ItemKey(fm_items[i]) # ItemKey(fm_items[j])
        /\ \A i \in DOMAIN fm_items :
               /\ \E k \in DOMAIN Candidates :
                      ItemKey(Candidates[k]) = ItemKey(fm_items[i])
               /\ fm_items[i] = Candidates[FirstCandidate(fm_items[i])]
               /\ fm_items[i].price \in Int
        /\ \A i, j \in DOMAIN fm_items :
               i < j => FirstCandidate(fm_items[i]) < FirstCandidate(fm_items[j])
        /\ Len(fm_items) <=
               Cardinality({ k \in DOMAIN fm_priced : fm_priced[k].price # None })

\* A page with two candidates of one key and different prices, and with a
\* candidate whose price does not resolve, has been fetched.
C16_Witness ==
    /\ fm_pc = "returned"
    /\ \E k \in DOMAIN fm_priced : fm_priced[k].price = None
    /\ \E i, j \in DOMAIN Candidates :
           /\ i < j
           /\ ItemKey(Candidates[i]) = ItemKey(Candidates[j])
           /\ Candidates[i].price # Candidates[j].price
    /\ Len(fm_items) >= 2

\* The candidates whose source price is a number.
NumericSources == { k \in DOMAIN fm_priced : fm_priced[k].source # None
                                           /\ Val(fm_priced[k].source).kind = "num" }

\* The distance between a and b.
Dist(a, b) == IF a >= b THEN a - b ELSE b - a

\* C17: a numeric source price greater than 20 is divided by 100 and one of
\* at most 20 is kept as it is, the result rounded to 2 decimals: the price
\* (in cents) is the nearest whole number of cents to the amount over 100,
\* or to the amount; 1299 gives 12.99 and 12.99 gives 12.99.
C17_PriceNormalization ==
    \A k \in NumericSources :
        LET amount == Val(fm_priced[k].source).num
            price == fm_priced[k].price
        IN  /\ price # None
            /\ amount > 20 * 1000 => 2 * Dist(1000 * Val(price), amount) <= 1000
            /\ amount <= 20 * 1000 => 2 * Dist(10 * Val(price), amount) <= 10
            /\ amount = 1299000 => Val(price) = 1299
            /\ amount = 12990 => Val(price) = 1299

\* A page with the numeric prices 1299 and 12.99 has been fetched.
C17_Witness ==
    /\ fm_pc = "returned"
    /\ \E k \in NumericSources : Val(fm_priced[k].source).num = 1299000
    /\ \E k \in NumericSources : Val(fm_priced[k].source).num = 12990

\* C18 as stated: a numeric source price of exactly 20 is normalized to
\* 0.20.
C18_BoundaryDivided ==
    \A k \in NumericSources :
        Val(fm_priced[k].source).num = 20 * 1000 => fm_priced[k].price = Some(20)

\* C18: a numeric source price of exactly 20 is kept as 20.00; only an
\* amount above 20 is divided by 100, so that 20.01 is normalized to 0.20.
C18_BoundaryKept ==
    \A k \in NumericSources :
        /\ Val(fm_priced[k].source).num = 20 * 1000 => fm_priced[k].price = Some(2000)
        /\ Val(fm_priced[k].source).num = 20010 => fm_priced[k].price = Some(20)

\* A page with the numeric prices 20 and 20.01 has been fetched.
C18_Witness ==
    /\ fm_pc = "returned"
    /\ \E k \in NumericSources : /\ Val(fm_priced[k].source).num = 20 * 1000
                                 /\ fm_priced[k].price # None
    /\ \E k \in NumericSources : Val(fm_priced[k].source).num = 20010

\* The searches made so far, each with the restaurant asked for and the list
\* search_stores returned.
Searches ==
    (IF ss_pc = "returned"
     THEN { [restaurant |-> ss_call.restaurant_name, stores |-> ss_stores] }
     ELSE {})
    \cup { [restaurant |-> restaurants_to_fetch[k], stores |-> im_searched[k].stores] :
             k \in DOMAIN im_searched }

\* The stores matching the restaurant in the page of its search, in the order
\* they are met, repetitions included.
Matches(restaurant) ==
    LET page == listing[restaurant]
        from_anchors == AnchorStores(restaurant, page.anchors)
    IN  IF from_anchors # << >> THEN from_anchors
        ELSE extract_stores_from_data(restaurant, page.objects)

\* How many different store ids the first j matches have.
Rank(matches, j) == Cardinality({ matches[i].store_id : i \in 1..j })

\* C19: the sequence search_stores returns has no two entries with one
\* store_id and at most 10 entries, and lists the kept entries in first-seen
\* order: the n-th entry is the match that brought the n-th new store_id;
\* of 15 matches with distinct store_ids exactly the first 10 are returned.
C19_DedupAndCap ==
    \A s \in Searches :
        LET matches == Matches(s.restaurant)
            distinct == Rank(matches, Len(matches))
        IN  /\ \A i, j \in DOMAIN s.stores :
                   i # j => s.stores[i].store_id # s.stores[j].store_id
            /\ Len(s.stores) <= 10
            /\ (s.stores # << >> /\ matches # << >>) =>
                   /\ Len(s.stores) = IF distinct < 10 THEN distinct ELSE 10
                   /\ \A j \in DOMAIN matches :
                          (Rank(matches, j) > Rank(matches, j - 1)
                             /\ Rank(matches, j) <= 10)
                          => s.stores[Rank(matches, j)] = matches[j]
            /\ (s.stores # << >> /\ listing[s.restaurant] = ListingFifteen(s.restaurant)
                  /\ s.restaurant = "McDonald's") =>
                   s.stores = [ k \in 1..10 |->
                                  UberEatsStore("Mcdonalds College Park", Ids[k]) ]

\* A search has met 15 matches with distinct store_ids and returned stores.
C19_Witness ==
    \E s \in Searches :
        /\ Len(Matches(s.restaurant)) = 15
        /\ Rank(Matches(s.restaurant), 15) = 15
        /\ Len(s.stores) = 10

\* The coordinates a call of search_stores by itself works with: those
\* passed, else those of the geocoder.
CallCoords == IF ss_call.coords = None THEN geocoder ELSE ss_call.coords

\* The call of search_stores by itself met a geocoding failure, a failed
\* search request, or a search without result.
GeocodingFailed == ss_call.coords = None /\ geocoder = None
SearchFailed == listing[ss_call.restaurant_name].status = "error"
NoResult ==
    /\ listing[ss_call.restaurant_name].status = "ok"
    /\ Matches(ss_call.restaurant_name) = << >>

\* The restaurant searched at turn k of the import was skipped with a reason.
SkippedAt(k) ==
    \E n \in DOMAIN skipped :
        /\ skipped[n].restaurant = restaurants_to_fetch[k]
        /\ skipped[n].reason \in {"store search failed", "no stores found"}

\* C20 as stated: a geocoding failure, a failed search request or a search
\* without result never raises to the caller: search_stores returns an empty
\* sequence, and the import never raises but records a skip reason for the
\* restaurant and goes on with the remaining ones.
C20_NeverRaises ==
    /\ ss_pc # "raised"
    /\ (ss_pc = "returned" /\ (GeocodingFailed \/ SearchFailed \/ NoResult))
           => ss_stores = << >>
    /\ im_pc # "raised"
    /\ \A k \in DOMAIN im_searched : im_searched[k].stores = << >> => SkippedAt(k)

\* C20: search_stores never raises; it returns an empty sequence after a
\* geocoding failure or a failed search request, and after a search without
\* result unless the restaurant is a chain of the static table, whose
\* synthesized entry it then returns. The import records a skip reason for
\* each restaurant whose search gave nothing and goes on to search every
\* remaining restaurant, but it raises to its caller in two cases: with
\* status 400, before any search, when the location cannot be geocoded, and
\* with status 404, after all searches, when no store target was found or
\* supplied.
C20_FailureIsolation ==
    /\ ss_pc # "raised"
    /\ ss_pc = "returned" =>
           /\ (GeocodingFailed \/ SearchFailed) => ss_stores = << >>
           /\ (NoResult /\ CallCoords # None /\ Val(CallCoords).lat # 0) =>
                  ss_stores = try_direct_store_url(ss_call.restaurant_name)
    /\ \A k \in DOMAIN im_searched :
           /\ im_searched[k].ok
           /\ im_searched[k].stores = << >> <=> SkippedAt(k)
    /\ im_pc = "searching" => im_i = Len(im_searched) + 1
    /\ im_pc = "scraping" =>
           /\ Len(im_searched) = Len(restaurants_to_fetch)
           /\ store_targets # << >>
    /\ im_pc = "raised" =>
           \/ /\ im_status = 400
              /\ geocoder = None
              /\ im_searched = << >>
           \/ /\ im_status = 404
              /\ Len(im_searched) = Len(restaurants_to_fetch)
              /\ \A k \in DOMAIN im_searched : SkippedAt(k)
              /\ im_request.store_urls = 0
    /\ (im_pc # "idle" /\ geocoder = None) => (im_pc = "raised" /\ im_status = 400)

\* The import has skipped a restaurant whose search request failed, then
\* found a store for a later one, and gone on to the scraping.
C20_Witness ==
    /\ im_pc = "scraping"
    /\ \E k, m \in DOMAIN im_searched :
           /\ k < m
           /\ listing[restaurants_to_fetch[k]].status = "error"
           /\ SkippedAt(k)
           /\ im_searched[m].stores # << >>

\* C25: the price_per_calorie the scorer returns is never negative, degenerate
\* inputs included, and it is 0 when the calories are absent or not positive.
C25_PricePerCalorieNotNegative ==
    scorer_out # None =>
        /\ Val(scorer_out).price_per_calorie >= 0
        /\ (scorer_in.calories = None \/ Val(scorer_in.calories) <= 0)
               => Val(scorer_out).price_per_calorie = 0

\* The timestamps of the approved acquisitions, one for each.
ApprovalBag ==
    LET approved == { t \in Tasks : approvedAt[t] # None }
    IN  [ x \in { Val(approvedAt[t]) : t \in approved } |->
            Cardinality({ t \in approved : Val(approvedAt[t]) = x }) ]

\* How many times x is in the deque.
TimesQueued(x) == Cardinality({ i \in DOMAIN requests : requests[i] = x })

\* C26: in every reachable state the deque of timestamps is in non-decreasing
\* order and holds at most max_requests entries, each the timestamp of one
\* approved acquisition; only a caller inside acquire (evaluating the deque,
\* or waking from its sleep) changes the deque; and right after an acquire
\* returns every entry lies within the trailing time_window.
C26_QueueInvariant ==
    /\ [](/\ \A i, j \in DOMAIN requests : i < j => requests[i] <= requests[j]
          /\ Len(requests) <= max_requests
          /\ \A i \in DOMAIN requests :
                 /\ requests[i] \in DOMAIN ApprovalBag
                 /\ TimesQueued(requests[i]) <= ApprovalBag[requests[i]])
    /\ [][requests' # requests =>
            \E t \in Tasks :
                \/ evalAt[t] = None /\ evalAt'[t] = Some(now)
                \/ pc[t] = "sleeping" /\ pc'[t] = "done"]_vars
    /\ [][\A t \in Tasks :
            (approvedAt[t] = None /\ approvedAt'[t] # None) =>
                /\ requests' # << >>
                /\ requests'[Len(requests')] = Val(approvedAt'[t])
                /\ \A i \in DOMAIN requests' : requests'[i] >= now' - time_window]_vars

\* The deque is full again after a caller slept, woke, pruned the entries
\* that had left the window and was approved.
C26_Witness ==
    /\ Len(requests) = max_requests
    /\ \E t \in Tasks : wakeAt[t] # None /\ approvedAt[t] # None
    /\ \E t \in Tasks : approvedAt[t] # None /\ TimesQueued(Val(approvedAt[t])) = 0

\* The searches made with known coordinates: a call of search_stores by
\* itself whose coordinates are known, and those of the import.
LocatedSearches ==
    (IF ss_pc = "returned" /\ CallCoords # None
        /\ Val(CallCoords).lat # 0 /\ Val(CallCoords).lon # 0
     THEN { [restaurant |-> ss_call.restaurant_name, stores |-> ss_stores] }
     ELSE {})
    \cup { [restaurant |-> restaurants_to_fetch[k], stores |-> im_searched[k].stores] :
             k \in { n \in DOMAIN im_searched : Val(geocoder).lat # 0 } }

\* The search of the platform gave no store for the restaurant: its request
\* failed, or its page has no match.
PrimaryFoundNothing(restaurant) ==
    \/ listing[restaurant].status = "error"
    \/ Matches(restaurant) = << >>

\* C30: for a restaurant of the static table and known coordinates,
\* search_stores returns the synthesized entry whenever the search of the
\* platform gives no store, also when its request fails.
C30_FallbackSurvivesFailure ==
    \A s \in LocatedSearches :
        (base_slug(s.restaurant) # None /\ PrimaryFoundNothing(s.restaurant)) =>
            s.stores = << UberEatsStore(title(s.restaurant), Val(base_slug(s.restaurant))) >>

\* What each strategy finds for a restaurant, taken alone.
FromAnchors(restaurant) == AnchorStores(restaurant, listing[restaurant].anchors)
FromEmbedded(restaurant) ==
    extract_stores_from_data(restaurant, listing[restaurant].objects)
FromStatic(restaurant) ==
    IF base_slug(restaurant) = None THEN << >>
    ELSE << UberEatsStore(title(restaurant), Val(base_slug(restaurant))) >>

\* The stores of a list, as a set.
Among(stores) == { stores[i] : i \in DOMAIN stores }

\* C23 as stated: the static lookup is the second strategy, tried when the
\* anchor matching found nothing, and the embedded JSON the third: with no
\* anchor matched the synthesized entry of a known chain is in the result,
\* ahead of the stores of the embedded JSON.
C23_StaticBeforeEmbedded ==
    \A s \in LocatedSearches :
        /\ FromAnchors(s.restaurant) # << >> =>
               Among(s.stores) \subseteq Among(FromAnchors(s.restaurant))
        /\ (listing[s.restaurant].status = "ok" /\ FromAnchors(s.restaurant) = << >>
              /\ FromStatic(s.restaurant) # << >>) =>
               /\ s.stores # << >>
               /\ s.stores[1] = FromStatic(s.restaurant)[1]

\* C23: anchor matching is tried first; the embedded JSON is the second
\* strategy, tried only when no anchor matched; the static lookup is the
\* third, tried only when neither of them found a store. The result comes
\* from one strategy alone: from the anchors whenever one matched, else from
\* the embedded JSON whenever it has a store, else it is the synthesized entry
\* of the static table, or empty.
C23_StrategyOrder ==
    \A s \in LocatedSearches :
        listing[s.restaurant].status = "ok" =>
            /\ FromAnchors(s.restaurant) # << >> =>
                   /\ s.stores # << >>
                   /\ Among(s.stores) \subseteq Among(FromAnchors(s.restaurant))
                   /\ s.stores[1] = FromAnchors(s.restaurant)[1]
            /\ (FromAnchors(s.restaurant) = << >> /\ FromEmbedded(s.restaurant) # << >>) =>
                   /\ s.stores # << >>
                   /\ Among(s.stores) \subseteq Among(FromEmbedded(s.restaurant))
                   /\ s.stores[1] = FromEmbedded(s.restaurant)[1]
            /\ (FromAnchors(s.restaurant) = << >> /\ FromEmbedded(s.restaurant) = << >>) =>
                   s.stores = FromStatic(s.restaurant)

\* A known chain was searched with known coordinates, no anchor matched and
\* the embedded JSON had stores.
C23_Witness ==
    \E s \in LocatedSearches :
        /\ listing[s.restaurant].status = "ok"
        /\ FromAnchors(s.restaurant) = << >>
        /\ FromEmbedded(s.restaurant) # << >>
        /\ FromStatic(s.restaurant) # << >>
        /\ s.stores # << >>

\* What C24 has the walk emit for a node: every dict with a string name-like
\* field and a resolvable price, once, with the name of the nearest enclosing
\* section (a dict with a name and a section type tag, or under a section key)
\* for category. keyed tells that the node is the value of a section key.
RECURSIVE ClaimedItems(_, _, _)
RECURSIVE ClaimedKids(_, _, _)
ClaimedItems(node, enclosing, keyed) ==
    IF node.kind = "dict"
    THEN LET is_section ==
                 /\ node.string_name # None
                 /\ \/ keyed
                    \/ /\ node.type # None
                       /\ lower(Val(node.type)) \in {"category", "section", "menuitemsection"}
             own == IF node.string_name # None /\ node.price # None
                    THEN << [name |-> node.string_name, price |-> node.price,
                             category |-> enclosing] >>
                    ELSE << >>
         IN  own \o ClaimedKids(node.kids,
                                IF is_section THEN node.string_name ELSE enclosing, TRUE)
    ELSE ClaimedKids(node.kids, enclosing, FALSE)

ClaimedKids(kids, enclosing, by_key) ==
    IF kids = << >> THEN << >>
    ELSE ClaimedItems(Head(kids).value, enclosing,
                      by_key /\ lower(Head(kids).key) \in
                                    {"category", "section", "menu_items_section"})
         \o ClaimedKids(Tail(kids), enclosing, by_key)

RECURSIVE ClaimedOf(_)
ClaimedOf(payloads) ==
    IF payloads = << >> THEN << >>
    ELSE IF ~Head(payloads).valid THEN ClaimedOf(Tail(payloads))
    ELSE ClaimedItems(Head(payloads).root, None, FALSE) \o ClaimedOf(Tail(payloads))

\* C24: for any nested JSON payload the walk emits every object that has a
\* string name-like field and a resolvable price exactly once, with the name
\* of the nearest enclosing category or section node for category, or none.
C24_WalkEmitsEveryItem ==
    (fm_pc \in {"returned", "raised"} /\ store_page.status = "ok") =>
        /\ fm_pc = "returned"
        /\ [ i \in DOMAIN fm_priced |->
               [name |-> fm_priced[i].name, price |-> fm_priced[i].source,
                category |-> fm_priced[i].category] ]
           = ClaimedOf(fm_payloads)

\* What each way of locating payloads finds in the page, taken alone: the
\* patterns on the whole page, the patterns on each script, and the
\* balanced-brace objects of the scripts with a marker.
WholePageFound == DirectMatches(1, store_page.html)

RECURSIVE PerScript(_)
PerScript(html) ==
    IF html = << >> THEN << >>
    ELSE (IF Head(html).script THEN ScriptMatches(1, Head(html)) ELSE << >>)
         \o PerScript(Tail(html))

RECURSIVE BraceObjects(_)
BraceObjects(html) ==
    IF html = << >> THEN << >>
    ELSE (IF Head(html).script /\ Head(html).marked THEN Head(html).objects ELSE << >>)
         \o BraceObjects(Tail(html))

\* fetch_menu got the page and located its payloads.
Located == store_page.status = "ok" /\ fm_pc \in {"returned", "raised"}

\* C22: the patterns are searched in each script only if they matched nothing
\* in the whole page, and the balanced-brace extraction is the last resort:
\* the payloads are those of the whole page when there is one, else those of
\* the per-script search when there is one, else the balanced-brace objects.
C22_PayloadLocationOrder ==
    Located =>
        fm_payloads =
            IF WholePageFound # << >> THEN WholePageFound
            ELSE IF PerScript(store_page.html) # << >> THEN PerScript(store_page.html)
            ELSE BraceObjects(store_page.html)

\* No pattern matched and the items returned come from balanced-brace objects.
C22_Witness ==
    /\ fm_pc = "returned"
    /\ WholePageFound = << >>
    /\ BraceObjects(store_page.html) # << >>
    /\ fm_payloads = BraceObjects(store_page.html)
    /\ fm_items # << >>

\* C29: every item fetch_menu returns carries a price_retrieved_at that is
\* not earlier than the start of that call.
C29_TimestampFresh ==
    fm_pc = "returned" =>
        \A i \in DOMAIN fm_items : fm_items[i].price_retrieved_at >= Val(fm_started)

(* ----------------------------------------------- routes: the table deals --- *)
\* How many requests the table serves.
MaxRequests == 2

\* Deal(...): a row, with prices in cents and the scores in the units of the
\* value calculator.  The columns description, image_url, portion_size and
\* location take no part in what follows and are left out.
Deal(restaurant_name, item_name, price, category, deal_type, calories, protein_grams, store_external_id, price_retrieved_at) ==
    [ restaurant_name |-> restaurant_name, item_name |-> item_name, price |-> price,
      category |-> category, deal_type |-> deal_type,
      calories |-> calories, protein_grams |-> protein_grams,
      value_score |-> 0, satiety_score |-> 0, price_per_calorie |-> 0,
      store_external_id |-> store_external_id,
      price_retrieved_at |-> price_retrieved_at,
      is_active |-> TRUE ]

\* The estimator's replies the requests on the table meet.
TableReplies ==
    { Reply("raises", FALSE, None, None),
      Reply("object", FALSE, Some(6507), Some(28)) }

\* gemini_service.score_deal(price=..., calories=..., protein_grams=...): what
\* it returns for its arguments and the reply of the estimator.
score_deal(price, calories, protein_grams, reply) ==
    LET a == [calories |-> calories, protein_grams |-> protein_grams, price |-> price]
    IN  IF HasNutrition(a) THEN Provided(a) ELSE Estimate(reply, price)

\* _apply_score_results(deal, scores, provided_calories=, provided_protein=):
\* every dict score_deal returns has the keys calories and protein_grams set.
apply_score_results(deal, scores, provided_calories, provided_protein) ==
    [ deal EXCEPT !.value_score = scores.value_score,
                  !.satiety_score = scores.satiety_score,
                  !.price_per_calorie = scores.price_per_calorie,
                  !.calories = IF provided_calories # None THEN provided_calories
                               ELSE Some(scores.calories),
                  !.protein_grams = IF provided_protein # None THEN provided_protein
                                    ELSE Some(scores.protein_grams) ]

\* The ranking every handler does: score_deal on the deal's price and the
\* nutrition given, then _apply_score_results with the same nutrition.
Ranked(deal, calories, protein_grams, reply) ==
    apply_score_results(deal, score_deal(deal.price, calories, protein_grams, reply),
                        calories, protein_grams)

\* dict.get(key) on a dict of rows: the place of the row, 0 for None.
Get(map, key) ==
    IF \E e \in map : e[1] = key THEN (CHOOSE e \in map : e[1] = key)[2] ELSE 0

\* map[key] = row
Put(map, key, row) == { e \in map : e[1] # key } \cup { << key, row >> }

\* What an import did with one record: the row it created or found (0: none).
LogEntry(import, name, price, op, row) ==
    [import |-> import, name |-> name, price |-> price, op |-> op, row |-> row]

\* bool(text) of an optional text
Truthy(text) == text # None /\ Val(text) # ""

\* One item of scrape_results[slug]: item.get("name") and the others, None
\* for a key that is missing or null; the price in cents.
ScrapedItem(name, price, category, calories, protein_grams) ==
    [name |-> name, price |-> price, category |-> category,
     calories |-> calories, protein_grams |-> protein_grams]

ScrapedMenu(slug, items) == [slug |-> slug, items |-> items]

\* What scrape_all returns, slug by slug: an item spelled in two ways; items
\* with no price, a price of zero and no name; nutrition with the protein
\* only and with calories of zero; a price below zero; no item at all.
ScrapeTwice ==
    << ScrapedMenu("mcdonalds",
          << ScrapedItem(Some("Big Mac"), Some(599), Some("Burgers"), Some(550), Some(25)),
             ScrapedItem(Some("BIG MAC"), Some(649), None, None, None) >>) >>
ScrapePriceless ==
    << ScrapedMenu("mcdonalds",
          << ScrapedItem(Some("Fries"), None, Some("Sides"), None, None),
             ScrapedItem(Some("Fries"), Some(0), None, Some(320), Some(4)),
             ScrapedItem(None, Some(100), None, None, None) >>) >>
ScrapeNutrition ==
    << ScrapedMenu("mcdonalds",
          << ScrapedItem(Some("Fries"), Some(249), Some(""), None, Some(4)) >>),
       ScrapedMenu("taco-bell",
          << ScrapedItem(Some("Crunchy Taco"), Some(199), None, Some(0), Some(8)) >>) >>
ScrapeTacos ==
    << ScrapedMenu("taco-bell",
          << ScrapedItem(Some("Crunchy Taco"), Some(219), Some("Lunch"), Some(170), None),
             ScrapedItem(Some("Fries"), Some(0 - 100), None, None, None) >>) >>
ScrapeNothing == << ScrapedMenu("wendys", << >>) >>

ScrapeResults ==
    { ScrapeTwice, ScrapePriceless, ScrapeNutrition, ScrapeTacos, ScrapeNothing }

\* The loops of lines 490 and 494 in one: every item with the restaurant of
\* its slug, in slug order.
RECURSIVE ScrapedRecords(_)
ScrapedRecords(scrape_results) ==
    IF scrape_results = << >> THEN << >>
    ELSE LET menu == Head(scrape_results)
         IN  [ i \in DOMAIN menu.items |->
                 [restaurant_name |-> RestaurantOf(menu.slug), item |-> menu.items[i]] ]
             \o ScrapedRecords(Tail(scrape_results))

\* The key of existing_map compared without lower().
ScrapeKeyMutExact(restaurant_name, name) == << restaurant_name, name >>
\* key = (restaurant_name.lower(), name.lower())
ScrapeKey(restaurant_name, name) == << lower(restaurant_name), lower(name) >>

\* Lines 477-483: the rows of the restaurants asked for, by key; of two rows
\* with one key the later one of the query stays.
ExistingMap(rows, restaurant_names) ==
    LET found == { i \in DOMAIN rows : rows[i].restaurant_name \in restaurant_names }
        KeyOf(i) == ScrapeKey(rows[i].restaurant_name, rows[i].item_name)
    IN  { << KeyOf(i), i >> :
            i \in { i \in found : \A j \in found : KeyOf(j) = KeyOf(i) => j <= i } }

\* import_scraped_menus is called: lines 473-488.
ScrapeImportCall(scrape_results, auto_rank) ==
    /\ db_pc = "idle"
    /\ db_requests < MaxRequests
    /\ db_pc' = "scrape_import"
    /\ db_auto_rank' = auto_rank
    /\ existing_map' =
           ExistingMap(table, { RestaurantOf(scrape_results[k].slug) :
                                  k \in DOMAIN scrape_results })
    /\ db_records' = ScrapedRecords(scrape_results)
    /\ last_ranked' = {}
    /\ UNCHANGED << table, db_targets, existing_deals, seen_store_keys, db_log,
                    db_requests >>
    /\ UNCHANGED notDbVars

\* Lines 519-552: the deal of the key, created or updated in place.
ScrapeUpsert(rows, row, restaurant_name, item) ==
    IF row = 0
    THEN Append(rows, Deal(restaurant_name, Val(item.name), Val(item.price), item.category,
                           Some("Menu Item"), item.calories, item.protein_grams,
                           None, None))
    ELSE [ rows EXCEPT ![row] =
             [ @ EXCEPT !.price = Val(item.price),
                        !.category = IF Truthy(item.category) THEN item.category ELSE @,
                        !.calories = IF item.calories # None THEN item.calories ELSE @,
                        !.protein_grams =
                            IF item.protein_grams # None THEN item.protein_grams ELSE @,
                        !.is_active = TRUE ] ]

\* One turn of the loop of line 494: lines 495-596.  score_deal catches what
\* its estimator raises, so the except of line 583 has nothing to catch.
ScrapeImportItem(reply) ==
    /\ db_pc = "scrape_import"
    /\ db_records # << >>
    /\ LET restaurant_name == Head(db_records).restaurant_name
           item == Head(db_records).item
       IN  IF ~Truthy(item.name)
           THEN \* "missing name"
                /\ db_log' = Append(db_log,
                       LogEntry("scrape", item.name, item.price, "missing name", 0))
                /\ last_ranked' = {}
                /\ UNCHANGED << table, existing_map >>
           ELSE IF item.price = None \/ Val(item.price) <= 0
           THEN \* "missing or invalid price"
                /\ db_log' = Append(db_log,
                       LogEntry("scrape", item.name, item.price,
                                "missing or invalid price", 0))
                /\ last_ranked' = {}
                /\ UNCHANGED << table, existing_map >>
           ELSE LET key == ScrapeKey(restaurant_name, Val(item.name))
                    found == Get(existing_map, key)
                    row == IF found = 0 THEN Len(table) + 1 ELSE found
                    rows == ScrapeUpsert(table, found, restaurant_name, item)
                    deal == rows[row]
                    calories_arg == IF item.calories # None THEN item.calories
                                    ELSE deal.calories
                    protein_arg == IF item.protein_grams # None THEN item.protein_grams
                                   ELSE deal.protein_grams
                IN  /\ existing_map' = IF found = 0 THEN Put(existing_map, key, row)
                                       ELSE existing_map
                    /\ db_log' = Append(db_log,
                           LogEntry("scrape", item.name, item.price,
                                    IF found = 0 THEN "created" ELSE "updated", row))
                    /\ IF db_auto_rank
                       THEN /\ table' = [ rows EXCEPT ![row] =
                                            Ranked(deal, calories_arg, protein_arg, reply) ]
                            /\ last_ranked' = { row }
                       ELSE /\ table' = rows
                            /\ last_ranked' = {}
    /\ db_records' = Tail(db_records)
    /\ UNCHANGED << db_pc, db_auto_rank, db_targets, existing_deals, seen_store_keys,
                    db_requests >>
    /\ UNCHANGED notDbVars

\* Lines 598-607: commit and return.
ScrapeImportReturns ==
    /\ db_pc = "scrape_import"
    /\ db_records = << >>
    /\ db_pc' = "idle"
    /\ db_requests' = db_requests + 1
    /\ existing_map' = {}
    /\ last_ranked' = {}
    /\ UNCHANGED << table, db_auto_rank, db_records, db_targets, existing_deals,
                    seen_store_keys, db_log >>
    /\ UNCHANGED notDbVars

\* A table the imports start from: empty, or with one row that was
\* deactivated.
Deactivated(deal) == [deal EXCEPT !.is_active = FALSE]
InitialTables ==
    { << >>,
      << Deactivated(Deal("McDonald's", "Big Mac", 549, None, Some("Menu Item"),
                          None, None, None, None)) >> }

ScrapeImportInit ==
    /\ GateInit
    /\ scorer_in = None
    /\ scorer_out = None
    /\ ScrapeIdle
    /\ RankIdle
    /\ MenuIdle
    /\ StoreIdle
    /\ table \in InitialTables
    /\ DbNotCalled

ScrapeImportNext ==
    \/ \E scrape_results \in ScrapeResults, auto_rank \in BOOLEAN :
           ScrapeImportCall(scrape_results, auto_rank)
    \/ \E reply \in TableReplies : ScrapeImportItem(reply)
    \/ ScrapeImportReturns

ScrapeImportSpec == ScrapeImportInit /\ [][ScrapeImportNext]_vars

\* UberEatsScraper.fetch_menu(store_url, restaurant_name=...) on the page
\* the store answers: the list it returns, None when it raises.
fetch_menu(page, restaurant_name) ==
    IF page.status = "error" THEN None
    ELSE IF ExtractRaises(extract_state_payloads(page.html)) THEN None
    ELSE Some(Dedupe(Collected(restaurant_name,
                               Priced(Extracted(extract_state_payloads(page.html)))),
                     << >>))

\* The web: what each store URL answers.  A URL stands for its last path
\* segment, which _extract_store_id makes the store_external_id of every
\* item of the store.
PageAt(store_url) ==
    CASE store_url = "mcdonalds-college-park" ->
             StorePage("ok", HtmlDirect(<< PayloadBurgers >>))
      [] store_url = "mcdonalds-hyattsville" ->
             StorePage("ok", HtmlDirect(<< PayloadLoose >>))
      [] store_url = "taco-bell-college-park" -> StorePage("error", << >>)
      [] store_url = "taco-bell-hyattsville" ->
             StorePage("ok", HtmlDirect(<< PayloadEmpty >>))

\* One of store_targets: target["restaurant"] and target["store_url"].
ScrapeTarget(restaurant, store_url) == [restaurant |-> restaurant, store_url |-> store_url]

\* The store_targets lines 620-722 hand to the loop of line 726.
TargetLists ==
    { << ScrapeTarget("McDonald's", "mcdonalds-college-park") >>,
      << ScrapeTarget("McDonald's", "mcdonalds-hyattsville") >>,
      << ScrapeTarget("McDonald's", "mcdonalds-college-park"),
         ScrapeTarget("McDonald's", "mcdonalds-college-park") >>,
      << ScrapeTarget("Taco Bell", "taco-bell-college-park"),
         ScrapeTarget("Taco Bell", "taco-bell-hyattsville") >> }

\* import_ubereats_menus from line 724 on, with the store targets built.
UberEatsImportCall(targets, auto_rank) ==
    /\ db_pc = "idle"
    /\ db_requests < MaxRequests
    /\ db_pc' = "ubereats_import"
    /\ db_auto_rank' = auto_rank
    /\ db_targets' = targets
    /\ seen_store_keys' = {}
    /\ last_ranked' = {}
    /\ UNCHANGED << table, db_records, existing_map, existing_deals, db_log, db_requests >>
    /\ UNCHANGED notDbVars

\* Lines 779-784: the rows of the store by item_name.lower(); of two rows
\* with one name the later one of the query stays.
ExistingDeals(rows, restaurant_name, store_external_id) ==
    LET found == { i \in DOMAIN rows :
                     /\ rows[i].restaurant_name = restaurant_name
                     /\ rows[i].store_external_id = Some(store_external_id) }
    IN  { << lower(rows[i].item_name), i >> :
            i \in { i \in found :
                      \A j \in found :
                          lower(rows[j].item_name) = lower(rows[i].item_name) => j <= i } }

\* One turn of the loop of line 726 up to the loop over its items: lines
\* 727-784.
UberEatsImportTarget ==
    /\ db_pc = "ubereats_import"
    /\ db_records = << >>
    /\ db_targets # << >>
    /\ LET target == Head(db_targets)
           items == fetch_menu(PageAt(target.store_url), target.restaurant)
           store_key == << lower(target.restaurant), target.store_url >>
       IN  IF items = None
           THEN \* except Exception: "scrape failed"
                /\ db_log' = Append(db_log,
                       LogEntry("ubereats", None, None, "scrape failed", 0))
                /\ UNCHANGED << db_records, existing_deals, seen_store_keys >>
           ELSE IF Val(items) = << >>
           THEN \* "no items found"
                /\ db_log' = Append(db_log,
                       LogEntry("ubereats", None, None, "no items found", 0))
                /\ UNCHANGED << db_records, existing_deals, seen_store_keys >>
           ELSE IF store_key \in seen_store_keys
           THEN UNCHANGED << db_records, existing_deals, seen_store_keys, db_log >>
           ELSE /\ seen_store_keys' = seen_store_keys \cup { store_key }
                /\ existing_deals' =
                       ExistingDeals(table, target.restaurant, target.store_url)
                /\ db_records' = [ i \in DOMAIN Val(items) |->
                                     [store_external_id |-> target.store_url,
                                      item |-> Val(items)[i]] ]
                /\ UNCHANGED db_log
    /\ db_targets' = Tail(db_targets)
    /\ last_ranked' = {}
    /\ UNCHANGED << table, db_pc, db_auto_rank, existing_map, db_requests >>
    /\ UNCHANGED notDbVars

\* Lines 788-832: the deal of the item, created or updated in place.
UberEatsUpsert(rows, row, store_external_id, item) ==
    IF row = 0
    THEN Append(rows, Deal(item.restaurant, item.name, item.price, item.category,
                           Some("Uber Eats Menu"), None, None,
                           Some(store_external_id), Some(item.price_retrieved_at)))
    ELSE [ rows EXCEPT ![row] =
             [ @ EXCEPT !.price = item.price,
                        !.category = IF Truthy(item.category) THEN item.category ELSE @,
                        !.store_external_id = Some(store_external_id),
                        !.price_retrieved_at = Some(item.price_retrieved_at),
                        !.is_active = TRUE ] ]

\* One turn of the loop of line 786: lines 787-870.
UberEatsImportItem(reply) ==
    /\ db_pc = "ubereats_import"
    /\ db_records # << >>
    /\ LET item == Head(db_records).item
           key == lower(item.name)
           found == Get(existing_deals, key)
           row == IF found = 0 THEN Len(table) + 1 ELSE found
           rows == UberEatsUpsert(table, found, Head(db_records).store_external_id, item)
           existing == rows[row]
       IN  /\ existing_deals' = IF found = 0 THEN Put(existing_deals, key, row)
                                ELSE existing_deals
           /\ db_log' = Append(db_log,
                  LogEntry("ubereats", Some(item.name), Some(item.price),
                           IF found = 0 THEN "created" ELSE "updated", row))
           /\ IF db_auto_rank
              THEN /\ table' = [ rows EXCEPT ![row] =
                                   Ranked(existing, existing.calories,
                                          existing.protein_grams, reply) ]
                   /\ last_ranked' = { row }
              ELSE /\ table' = rows
                   /\ last_ranked' = {}
    /\ db_records' = Tail(db_records)
    /\ UNCHANGED << db_pc, db_auto_rank, db_targets, existing_map, seen_store_keys,
                    db_requests >>
    /\ UNCHANGED notDbVars

\* Lines 872-880: commit and return.
UberEatsImportReturns ==
    /\ db_pc = "ubereats_import"
    /\ db_records = << >>
    /\ db_targets = << >>
    /\ db_pc' = "idle"
    /\ db_requests' = db_requests + 1
    /\ existing_deals' = {}
    /\ seen_store_keys' = {}
    /\ last_ranked' = {}
    /\ UNCHANGED << table, db_auto_rank, db_records, db_targets, existing_map, db_log >>
    /\ UNCHANGED notDbVars

\* DealCreate: what the schema lets through, price > 0, calories > 0 when
\* given, protein_grams >= 0 when given.
DealsIn ==
    { Deal("McDonald's", "Big Mac", 599, None, None, None, Some(30), None, None),
      Deal("Wendy's", "Baconator Combo", 1099, Some("Burgers"), None, Some(960), None,
           None, None) }

\* create_deal(deal_data, auto_rank): lines 186-230.
CreateDeal(deal_data, auto_rank, reply) ==
    /\ db_pc = "idle"
    /\ db_requests < MaxRequests
    /\ table' = Append(table,
                       IF auto_rank
                       THEN Ranked(deal_data, deal_data.calories, deal_data.protein_grams,
                                   reply)
                       ELSE deal_data)
    /\ last_ranked' = IF auto_rank THEN { Len(table) + 1 } ELSE {}
    /\ db_requests' = db_requests + 1
    /\ UNCHANGED << db_pc, db_auto_rank, db_records, db_targets, existing_map,
                    existing_deals, seen_store_keys, db_log >>
    /\ UNCHANGED notDbVars

\* rank_deal(deal_id) on a row that exists: lines 274-325.
RankDeal(deal_id, reply) ==
    /\ db_pc = "idle"
    /\ db_requests < MaxRequests
    /\ deal_id \in DOMAIN table
    /\ table' = [ table EXCEPT ![deal_id] =
                    Ranked(@, @.calories, @.protein_grams, reply) ]
    /\ last_ranked' = { deal_id }
    /\ db_requests' = db_requests + 1
    /\ UNCHANGED << db_pc, db_auto_rank, db_records, db_targets, existing_map,
                    existing_deals, seen_store_keys, db_log >>
    /\ UNCHANGED notDbVars

\* rank_all_deals(active_only) to its commit, every rank_single_deal meeting
\* the same reply: lines 338-424.
RankAllDeals(active_only, reply) ==
    /\ db_pc = "idle"
    /\ db_requests < MaxRequests
    /\ LET chosen == { i \in DOMAIN table : active_only => table[i].is_active }
       IN  /\ chosen # {}
           /\ table' = [ i \in DOMAIN table |->
                           IF i \in chosen
                           THEN Ranked(table[i], table[i].calories,
                                       table[i].protein_grams, reply)
                           ELSE table[i] ]
           /\ last_ranked' = chosen
    /\ db_requests' = db_requests + 1
    /\ UNCHANGED << db_pc, db_auto_rank, db_records, db_targets, existing_map,
                    existing_deals, seen_store_keys, db_log >>
    /\ UNCHANGED notDbVars

DbInit == ScrapeImportInit

DbNext ==
    \/ ScrapeImportNext
    \/ \E targets \in TargetLists, auto_rank \in BOOLEAN :
           UberEatsImportCall(targets, auto_rank)
    \/ UberEatsImportTarget
    \/ \E reply \in TableReplies : UberEatsImportItem(reply)
    \/ UberEatsImportReturns
    \/ \E deal_data \in DealsIn, auto_rank \in BOOLEAN, reply \in TableReplies :
           CreateDeal(deal_data, auto_rank, reply)
    \/ \E deal_id \in 1..(2 * MaxRequests + 1), reply \in TableReplies :
           RankDeal(deal_id, reply)
    \/ \E active_only \in BOOLEAN, reply \in TableReplies :
           RankAllDeals(active_only, reply)

DbSpec == DbInit /\ [][DbNext]_vars

\* C21: no import creates a deal or updates a price from a record whose
\* price is null or not positive: every such record is left out of the table.
C21_PricelessNeverPersisted ==
    \A k \in DOMAIN db_log :
        (db_log[k].price = None \/ Val(db_log[k].price) <= 0) => db_log[k].row = 0

\* ValueScorer applied to what the row stores.
StoredScores(deal) ==
    calculate_final_value_score(deal.calories, deal.protein_grams, deal.price)

\* C28: every row a step has just ranked stores the scores the value
\* calculator gives for the calories, the protein and the price it stores.
C28_StoredScoreMatchesNutrition ==
    \A i \in last_ranked :
        /\ table[i].value_score = StoredScores(table[i]).value_score
        /\ table[i].satiety_score = StoredScores(table[i]).satiety_score
        /\ table[i].price_per_calorie = StoredScores(table[i]).price_per_calorie

\* The key the claim counts deals by: the restaurant and the item name in
\* lower case.
DealKey(deal) == << deal.restaurant_name, lower(deal.item_name) >>

\* The entries of the log that are the latest for their row.
LatestFor(row) ==
    { k \in DOMAIN db_log :
        /\ db_log[k].row = row
        /\ \A l \in DOMAIN db_log : db_log[l].row = row => l <= k }

\* C27: through any sequence of scraped-menu imports the table holds at most
\* one deal per restaurant and lowercased item name, and every record an
\* import persisted is in the one row of its key: the row is active and
\* carries the price of the latest record of that key.
C27_UpdatesInPlace ==
    /\ \A i, j \in DOMAIN table : DealKey(table[i]) = DealKey(table[j]) => i = j
    /\ \A k \in DOMAIN db_log :
          db_log[k].row # 0 =>
              /\ db_log[k].row \in DOMAIN table
              /\ lower(table[db_log[k].row].item_name) = lower(Val(db_log[k].name))
              /\ k \in LatestFor(db_log[k].row) =>
                    /\ table[db_log[k].row].price = Val(db_log[k].price)
                    /\ table[db_log[k].row].is_active

\* One import took the same item twice, spelled differently: the first time
\* it created the row, the second time it updated it.
C27_Witness ==
    /\ db_requests = 0
    /\ \E k, l \in DOMAIN db_log :
          /\ k < l
          /\ db_log[k].op = "created"
          /\ db_log[l].op = "updated"
          /\ db_log[k].row = db_log[l].row
          /\ db_log[k].name # db_log[l].name
          /\ table[db_log[l].row].price = Val(db_log[l].price)

====
